---- MODULE Spec2Model ----
(***************************************************************************)
(* Model of the YouTube ETL warehouse load                                 *)
(* (azure-functions/function_app.py, class SnowflakeLoaderService).        *)
(*                                                                         *)
(* The warehouse tables, the object store and the session state of each   *)
(* run are the variables.  Every SQL statement is an operator computing   *)
(* the table it leaves; load_todays_data is a process whose positions are *)
(* the phase bodies, the commit / rollback calls that close them, the     *)
(* outer handler and the finally block.  Every warehouse call may fail.   *)
(***************************************************************************)
EXTENDS Integers, Sequences, FiniteSets, Bags, TLC

\* ------------------------------------------------------------------ bounds
MaxClock == 2
MaxUploads == 2
MaxRuns == 2
MaxRecs == 1
MaxFaults == 2
MaxRunFaults == 3
MaxTags == 2

TicksPerDay == 2

\* ------------------------------------------------------------- value sets
NULL == "NULL"
\* the value DIM_CHANNELS gives last_updated when an INSERT names no value
\* for it.  The declaration of the table is not among the sources; by the
\* specification last_updated is set by every successful merge, which for an
\* inserted row is the column default CURRENT_TIMESTAMP()
LastUpdatedDefault(t) == t
\* service objects: 1 is the scheduled invocation, 2 an invocation that
\* overlaps it
RunIds == {1, 2}
VideoIds == {"v1", "v2"}
ChannelIds == {"c1", "c2"}
Keywords == {"technology", "AI"}
Countries == {"US", "GB"}

\* a video belongs to one channel and its classification is a function of
\* its own metadata
ChannelOf(v) == IF v = "v1" THEN "c1" ELSE "c2"
SentimentOf(v) == IF v = "v1" THEN "POSITIVE" ELSE "NEGATIVE"

\* date component of a timestamp (DATE(...), CURRENT_DATE(), date_path)
DateOf(t) == t \div TicksPerDay

\* ---------------------------------------------------------------- state
VARIABLES
    now,            \* wall clock (CURRENT_TIMESTAMP)
    uploadsLeft,    \* upload_to_azure calls still to come
    runsLeft,       \* load_todays_data calls still to come
    videosBlobs,    \* object store: timestamp |-> set of video records
    channelsBlobs,  \* object store: timestamp |-> (channel_id |-> snapshot)
    staging,        \* RAW.STG_VIDEOS, committed content (bag of rows)
    dim,            \* CORE.DIM_CHANNELS, committed content (set of rows)
    fact,           \* CORE.FACT_VIDEOS, committed content (set of rows)
    agg,            \* ANALYTICS.AGG_DAILY_BY_REGION, committed (bag of rows)
    pc,             \* position of each run inside load_todays_data
    conn,           \* self.conn of each run: "none", "open", "closed"
    cursor,         \* self.cursor of each run: "none", "open", "closed"
    autocommit,     \* session AUTOCOMMIT parameter of each run's connection
    tx,             \* uncommitted changes of each run's open transaction
    date_path,      \* date partition computed at the start of the run
    tempVideos,     \* session table TEMP_VIDEOS of each run
    tempChannels,   \* session table TEMP_CHANNELS of each run
    faultsLeft,     \* warehouse calls that may still fail
    ret,            \* outcome of load_todays_data: "none", "True", "False", "raised"
    events,         \* calls made by the run so far, with their outcome
    pre,            \* committed tables when the run started
    concurrency,    \* invocations of load_todays_data that may be in flight
    video_data,     \* the video resource handed to classify_video
    classification, \* what classify_video returned for it, or the exception it raised
    config,         \* self.config: the configuration the service was constructed with
    statistics,     \* the statistics part handed to calculate_engagement
    engagement,     \* what calculate_engagement returned, in units of 0.0001
    youtube,        \* self.youtube: what the video search and the channel lookup return
    collection,     \* what collect_data returned: (all_videos, channel_records)
    environ,        \* os.environ: the settings that have a value
    entry_point,    \* the entry point invoked
    steps,          \* the calls the entry point made, with their outcome
    outcome,        \* how the entry point ended: "none" while it has not
    raising         \* the steps of the legacy load that raise when called

vars == <<now, uploadsLeft, runsLeft, videosBlobs, channelsBlobs, staging, dim, fact,
          agg, pc, conn, cursor, autocommit, tx, date_path, tempVideos,
          tempChannels, faultsLeft, ret, events, pre, concurrency,
          video_data, classification, config, statistics, engagement,
          youtube, collection, environ, entry_point, steps, outcome, raising>>

store == <<videosBlobs, channelsBlobs, uploadsLeft>>
tables == <<staging, dim, fact, agg>>
session == <<conn, cursor, autocommit, date_path>>
temps == <<tempVideos, tempChannels>>
collector == <<video_data, classification, config, statistics, engagement,
              youtube, collection, environ, entry_point, steps, outcome, raising>>

\* ---------------------------------------------------------- classifier
\* AzureFunctionConfig: keyword lists and category codes
POSITIVE_KEYWORDS == {"amazing", "great", "excellent", "best", "awesome"}
NEGATIVE_KEYWORDS == {"terrible", "worst", "bad", "awful", "horrible"}
POSITIVE_CATEGORIES == {28}
NEGATIVE_CATEGORIES == {25}
MIXED_CATEGORIES == {22, 23, 24}
\* the category sets of an AzureFunctionConfig instance
AzureFunctionConfig ==
    [POSITIVE_CATEGORIES |-> POSITIVE_CATEGORIES,
     NEGATIVE_CATEGORIES |-> NEGATIVE_CATEGORIES,
     MIXED_CATEGORIES |-> MIXED_CATEGORIES]

\* the words a title, a description or a tag list is made of, and the
\* category codes the API reports (as strings)
Words == {"Great", "best", "badge", "worst", "awful", "vlog"}
CategoryCodes == {"28", "25", "22", "23", "24", "10", "n/a"}

\* int(categoryId): the integer a decimal literal denotes; for any other
\* string int() raises ValueError, marked by a value that is no category code
NotAnInteger == 0 - 1
ParseInt(c) ==
    CASE c = "28" -> 28 [] c = "25" -> 25 [] c = "22" -> 22
      [] c = "23" -> 23 [] c = "24" -> 24 [] c = "10" -> 10
      [] OTHER -> NotAnInteger

\* classify_video left by the exception e instead of returning a result
Raised(e) ==
    [final_sentiment |-> e, classification_method |-> e,
     positive_keyword_count |-> 0, negative_keyword_count |-> 0]

\* word.lower()
Lower(w) == IF w = "Great" THEN "great" ELSE w

\* keyword in text: the keyword is a substring of a lowercased word
IsSubstring(k, w) == k = w \/ (k = "bad" /\ w = "badge")
KeywordIn(k, text) == \E i \in DOMAIN text : IsSubstring(k, Lower(text[i]))

\* ------------------------------------------------------ engagement scorer
\* a count as the API reports it: a string of decimal digits, here the
\* sequence of its digits
MaxDigits == 2
Digits == {0, 1, 7}
CountLiterals ==
    UNION { [1..k -> Digits] : k \in 1..MaxDigits } \cup {<<2, 0, 0>>, <<6, 4, 0>>, <<2, 3>>}

RECURSIVE ParseDecimal(_)
\* int(s) of a string of decimal digits
ParseDecimal(d) ==
    IF d = <<>> THEN 0
    ELSE 10 * ParseDecimal(SubSeq(d, 1, Len(d) - 1)) + d[Len(d)]

\* int(statistics.get(key, 0))
GetCount(s, key) == IF key \in DOMAIN s THEN ParseDecimal(s[key]) ELSE 0

\* round(x, 4) of the float computed for n * 100 / d, as a number of
\* ten-thousandths: the multiple of 0.0001 nearest to it; where the exact
\* quotient lies half way between two multiples, the rounding error of the
\* float division decides which of the two is returned
Round4(n, d) ==
    LET q == (n * 1000000) \div d
        r == (n * 1000000) % d
    IN IF 2 * r < d THEN {q}
       ELSE IF 2 * r > d THEN {q + 1}
       ELSE {q, q + 1}

\* the outcome of a division by zero: ZeroDivisionError is raised, no rate
ZeroDivisionError == 0 - 2

\* variant of calculate_engagement that cuts the rate off after four decimals
calculate_engagement_truncated(s) ==
    LET views == GetCount(s, "viewCount")
        likes == GetCount(s, "likeCount")
        comments == GetCount(s, "commentCount")
    IN IF views = 0 THEN {0}
       ELSE {((likes + comments) * 1000000) \div views}

\* variant of calculate_engagement without the test for zero views
calculate_engagement_unguarded(s) ==
    LET views == GetCount(s, "viewCount")
        likes == GetCount(s, "likeCount")
        comments == GetCount(s, "commentCount")
    IN IF views = 0 THEN {ZeroDivisionError}
       ELSE Round4(likes + comments, views)

\* calculate_engagement(statistics): the values it can return
calculate_engagement(s) ==
    LET views == GetCount(s, "viewCount")
        likes == GetCount(s, "likeCount")
        comments == GetCount(s, "commentCount")
    IN IF views = 0 THEN {0}
       ELSE Round4(likes + comments, views)

\* no statistics at hand, no rate computed
NoStatistics == <<>>
NoEngagement == 0 - 1

\* variant of classify_video that lets the keyword counts decide before the
\* category does
classify_video_keywordsFirst(v) ==
    LET combined_text == v.title \o v.description \o v.tags
        pos_count == Cardinality({ k \in POSITIVE_KEYWORDS : KeywordIn(k, combined_text) })
        neg_count == Cardinality({ k \in NEGATIVE_KEYWORDS : KeywordIn(k, combined_text) })
    IN [final_sentiment |-> IF pos_count > neg_count THEN "POSITIVE"
                            ELSE IF neg_count > pos_count THEN "NEGATIVE"
                            ELSE "NEUTRAL",
        classification_method |-> "KEYWORD_BASED",
        positive_keyword_count |-> pos_count,
        negative_keyword_count |-> neg_count]

\* variant of classify_video that gives a tie of the keyword counts to POSITIVE
classify_video_tiePositive(v) ==
    LET category_id == ParseInt(v.categoryId)
        combined_text == v.title \o v.description \o v.tags
        pos_count == Cardinality({ k \in POSITIVE_KEYWORDS : KeywordIn(k, combined_text) })
        neg_count == Cardinality({ k \in NEGATIVE_KEYWORDS : KeywordIn(k, combined_text) })
        sentiment ==
            IF category_id \in config.POSITIVE_CATEGORIES THEN "POSITIVE"
            ELSE IF category_id \in config.NEGATIVE_CATEGORIES THEN "NEGATIVE"
            ELSE IF category_id \in config.MIXED_CATEGORIES
                 THEN IF pos_count >= neg_count THEN "POSITIVE" ELSE "NEGATIVE"
            ELSE "UNKNOWN"
        method ==
            IF category_id \in config.POSITIVE_CATEGORIES \cup config.NEGATIVE_CATEGORIES
            THEN "CATEGORY_BASED"
            ELSE IF category_id \in config.MIXED_CATEGORIES THEN "KEYWORD_BASED"
            ELSE "UNCATEGORIZED"
    IN IF category_id = NotAnInteger THEN Raised("ValueError")
       ELSE [final_sentiment |-> sentiment,
             classification_method |-> method,
             positive_keyword_count |-> pos_count,
             negative_keyword_count |-> neg_count]

\* variant of classify_video that reports a tie of the keyword counts as UNKNOWN
classify_video_unknownOnTie(v) ==
    LET category_id == ParseInt(v.categoryId)
        combined_text == v.title \o v.description \o v.tags
        pos_count == Cardinality({ k \in POSITIVE_KEYWORDS : KeywordIn(k, combined_text) })
        neg_count == Cardinality({ k \in NEGATIVE_KEYWORDS : KeywordIn(k, combined_text) })
        sentiment ==
            IF category_id \in config.POSITIVE_CATEGORIES THEN "POSITIVE"
            ELSE IF category_id \in config.NEGATIVE_CATEGORIES THEN "NEGATIVE"
            ELSE IF category_id \in config.MIXED_CATEGORIES
                 THEN IF pos_count > neg_count THEN "POSITIVE"
                      ELSE IF neg_count > pos_count THEN "NEGATIVE"
                      ELSE "UNKNOWN"
            ELSE "UNKNOWN"
        method ==
            IF category_id \in config.POSITIVE_CATEGORIES \cup config.NEGATIVE_CATEGORIES
            THEN "CATEGORY_BASED"
            ELSE IF category_id \in config.MIXED_CATEGORIES THEN "KEYWORD_BASED"
            ELSE "UNCATEGORIZED"
    IN IF category_id = NotAnInteger THEN Raised("ValueError")
       ELSE [final_sentiment |-> sentiment,
             classification_method |-> method,
             positive_keyword_count |-> pos_count,
             negative_keyword_count |-> neg_count]

\* variant of classify_video that tests the mixed set before the positive and
\* the negative set
classify_video_mixedFirst(v) ==
    LET category_id == ParseInt(v.categoryId)
        combined_text == v.title \o v.description \o v.tags
        pos_count == Cardinality({ k \in POSITIVE_KEYWORDS : KeywordIn(k, combined_text) })
        neg_count == Cardinality({ k \in NEGATIVE_KEYWORDS : KeywordIn(k, combined_text) })
        sentiment ==
            IF category_id \in config.MIXED_CATEGORIES
            THEN IF pos_count > neg_count THEN "POSITIVE"
                 ELSE IF neg_count > pos_count THEN "NEGATIVE"
                 ELSE "NEUTRAL"
            ELSE IF category_id \in config.POSITIVE_CATEGORIES THEN "POSITIVE"
            ELSE IF category_id \in config.NEGATIVE_CATEGORIES THEN "NEGATIVE"
            ELSE "UNKNOWN"
        method ==
            IF category_id \in config.MIXED_CATEGORIES THEN "KEYWORD_BASED"
            ELSE IF category_id \in config.POSITIVE_CATEGORIES \cup config.NEGATIVE_CATEGORIES
            THEN "CATEGORY_BASED"
            ELSE "UNCATEGORIZED"
    IN IF category_id = NotAnInteger THEN Raised("ValueError")
       ELSE [final_sentiment |-> sentiment,
             classification_method |-> method,
             positive_keyword_count |-> pos_count,
             negative_keyword_count |-> neg_count]

\* classify_video(video_data)
classify_video(v) ==
    LET category_id == ParseInt(v.categoryId)
        combined_text == v.title \o v.description \o v.tags
        pos_count == Cardinality({ k \in POSITIVE_KEYWORDS : KeywordIn(k, combined_text) })
        neg_count == Cardinality({ k \in NEGATIVE_KEYWORDS : KeywordIn(k, combined_text) })
        sentiment ==
            IF category_id \in config.POSITIVE_CATEGORIES THEN "POSITIVE"
            ELSE IF category_id \in config.NEGATIVE_CATEGORIES THEN "NEGATIVE"
            ELSE IF category_id \in config.MIXED_CATEGORIES
                 THEN IF pos_count > neg_count THEN "POSITIVE"
                      ELSE IF neg_count > pos_count THEN "NEGATIVE"
                      ELSE "NEUTRAL"
            ELSE "UNKNOWN"
        method ==
            IF category_id \in config.POSITIVE_CATEGORIES \cup config.NEGATIVE_CATEGORIES
            THEN "CATEGORY_BASED"
            ELSE IF category_id \in config.MIXED_CATEGORIES THEN "KEYWORD_BASED"
            ELSE "UNCATEGORIZED"
    IN IF category_id = NotAnInteger THEN Raised("ValueError")
       ELSE [final_sentiment |-> sentiment,
             classification_method |-> method,
             positive_keyword_count |-> pos_count,
             negative_keyword_count |-> neg_count]

\* no video resource at hand, no classification computed
NoVideo == [categoryId |-> NULL, title |-> <<>>, description |-> <<>>, tags |-> <<>>]
NoClassification ==
    [final_sentiment |-> NULL, classification_method |-> NULL,
     positive_keyword_count |-> 0, negative_keyword_count |-> 0]

\* ----------------------------------------------------------- entry points
\* the settings read from the environment; the warehouse and the database
\* name have a default, so their attributes are set whatever the environment
EnvKeys ==
    {"YOUTUBE_API_KEY", "AZURE_CONNECTION_STRING", "SNOWFLAKE_USER",
     "SNOWFLAKE_PASSWORD", "SNOWFLAKE_ACCOUNT", "SNOWFLAKE_WAREHOUSE",
     "SNOWFLAKE_DATABASE"}
Defaulted == {"SNOWFLAKE_WAREHOUSE", "SNOWFLAKE_DATABASE"}
Configured(env) == env \cup Defaulted

\* AzureFunctionConfig.validate(): TRUE when it returns, FALSE when it raises
validate(env) ==
    {"YOUTUBE_API_KEY", "AZURE_CONNECTION_STRING", "SNOWFLAKE_USER",
     "SNOWFLAKE_PASSWORD", "SNOWFLAKE_ACCOUNT", "SNOWFLAKE_WAREHOUSE",
     "SNOWFLAKE_DATABASE"} \subseteq Configured(env)

\* Config.validate() of the scripts
Config_validate(env) ==
    {"YOUTUBE_API_KEY", "AZURE_CONNECTION_STRING", "SNOWFLAKE_USER"}
        \subseteq Configured(env)

\* one call made by an entry point and how it ended
Call(op, result) == [op |-> op, result |-> result]
CollectOutcomes == {"videos", "empty", "raised"}
UploadOutcomes == {"True", "False"}
LoadOutcomes == {"True", "False", "raised"}
ConnectOutcomes == {"connected", "raised"}

\* variant of YouTubeCollectorFunction that does not test upload_success
YouTubeCollectorFunction_uploadIgnored(env, collected, uploaded, loaded) ==
    IF ~validate(env) THEN <<Call("validate", "raised")>>
    ELSE <<Call("validate", "ok"), Call("collect_data", collected)>>
         \o (IF collected # "videos" THEN <<>>
             ELSE <<Call("upload_to_azure", uploaded),
                    Call("load_todays_data", loaded)>>)

\* variant of YouTubeCollectorFunction that does not test for an empty
\* collection
YouTubeCollectorFunction_emptyUploaded(env, collected, uploaded, loaded) ==
    IF ~validate(env) THEN <<Call("validate", "raised")>>
    ELSE <<Call("validate", "ok"), Call("collect_data", collected)>>
         \o (IF collected = "raised" THEN <<>>
             ELSE <<Call("upload_to_azure", uploaded)>>
                  \o (IF uploaded # "True" THEN <<>>
                      ELSE <<Call("load_todays_data", loaded)>>))

\* the calls YouTubeCollectorFunction makes, given how each of them ends
YouTubeCollectorFunction(env, collected, uploaded, loaded) ==
    IF ~validate(env) THEN <<Call("validate", "raised")>>
    ELSE <<Call("validate", "ok"), Call("collect_data", collected)>>
         \o (IF collected # "videos" THEN <<>>
             ELSE <<Call("upload_to_azure", uploaded)>>
                  \o (IF uploaded # "True" THEN <<>>
                      ELSE <<Call("load_todays_data", loaded)>>))

\* the calls main() of youtube_collector.py makes: the upload follows the
\* collection whatever it returned
collector_main(env, collected, uploaded) ==
    IF ~Config_validate(env) THEN <<Call("validate", "raised")>>
    ELSE <<Call("validate", "ok"), Call("collect_data", collected)>>
         \o (IF collected = "raised" THEN <<>>
             ELSE <<Call("upload_to_azure", uploaded)>>)

\* the calls main() of snowflake_loader.py makes: SnowflakeLoader() connects
\* in its constructor; its load_todays_data catches every exception
loader_main(env, connected, loaded) ==
    IF ~Config_validate(env) THEN <<Call("validate", "raised")>>
    ELSE <<Call("validate", "ok"), Call("connect", connected)>>
         \o (IF connected = "raised" THEN <<>>
             ELSE <<Call("load_todays_data", loaded)>>)

\* how an entry point ends after its calls: the function re-raises what it
\* caught and returns None otherwise, a script returns an exit status
Raises(calls) == \E n \in DOMAIN calls : calls[n].result = "raised"
FunctionOutcome(calls) == IF Raises(calls) THEN "raised" ELSE "None"
ScriptOutcome(calls) ==
    IF Raises(calls) \/ calls[Len(calls)].result = "False" THEN "1" ELSE "0"

EntryPoints == {"YouTubeCollectorFunction", "youtube_collector.main",
                "snowflake_loader.main"}

\* ------------------------------------------------------------ bag helpers
RECURSIVE SumOver(_, _)
\* sum of the function f over the finite set S
SumOver(f, S) ==
    IF S = {} THEN 0
    ELSE LET x == CHOOSE y \in S : TRUE IN f[x] + SumOver(f, S \ {x})

TableNames == {"staging", "dim", "fact", "agg"}
NoRows == [t \in TableNames |-> EmptyBag]
EmptyTx == [del |-> NoRows, ins |-> NoRows]

\* committed content of the warehouse
Committed == [staging |-> staging, dim |-> dim, fact |-> fact, agg |-> agg]

\* what the session of run r reads: committed rows and its own open changes
View(r) ==
    [t \in TableNames |-> (Committed[t] (-) tx[r].del[t]) (+) tx[r].ins[t]]

\* -------------------------------------------------- SQL of the five phases
\* SELECT value, METADATA$FILENAME FROM @stage/date_path/ ... LIKE '%videos_%'
SelectTempVideos(blobs, d) ==
    UNION { { [raw_json |-> rec, file_name |-> ts] : rec \in blobs[ts] }
            : ts \in { f \in DOMAIN blobs : DateOf(f) = d } }

\* variant of InsertStaging that leaves out the rows staging already holds
InsertStaging_dedup(stg, temp) ==
    stg (+) SetToBag({ x \in temp : ~BagIn(x, stg) })

\* INSERT INTO STG_VIDEOS (raw_json, file_name) SELECT ... FROM TEMP_VIDEOS
\* (load_timestamp is not modelled: equal rows are counted by the bag)
InsertStaging(stg, temp) == stg (+) SetToBag(temp)

\* the time stamp in a blob name (strftime with zero-padded fields) as its
\* sequence of digits, and the order of such names as strings
FileName(t) == <<t \div 10, t % 10>>
LexLeq(a, b) ==
    \/ a = b
    \/ \E i \in DOMAIN a \cap DOMAIN b :
          /\ a[i] < b[i]
          /\ \A k \in 1..(i - 1) : a[k] = b[k]

\* variant of SelectTempChannels that keeps the snapshot of the first file
SelectTempChannels_firstFile(blobs, d) ==
    LET files == { f \in DOMAIN blobs : DateOf(f) = d }
        ids == UNION { DOMAIN blobs[f] : f \in files } \ {NULL}
        first(c) == CHOOSE f \in files :
                      /\ c \in DOMAIN blobs[f]
                      /\ \A g \in files : c \in DOMAIN blobs[g]
                            => LexLeq(FileName(f), FileName(g))
    IN { [channel_id |-> c, channel_country |-> blobs[first(c)][c]] : c \in ids }

\* SELECT ... FROM @stage/date_path/ ... LIKE '%channels_%'
\*   AND value:channel_id IS NOT NULL
\*   QUALIFY ROW_NUMBER() OVER (PARTITION BY channel_id
\*                              ORDER BY METADATA$FILENAME DESC) = 1
SelectTempChannels(blobs, d) ==
    LET files == { f \in DOMAIN blobs : DateOf(f) = d }
        ids == UNION { DOMAIN blobs[f] : f \in files } \ {NULL}
        last(c) == CHOOSE f \in files :
                      /\ c \in DOMAIN blobs[f]
                      /\ \A g \in files : c \in DOMAIN blobs[g]
                            => LexLeq(FileName(g), FileName(f))
    IN { [channel_id |-> c, channel_country |-> blobs[last(c)][c]] : c \in ids }

\* variant of MergeChannels whose ON condition never matches: every source
\* row is inserted
MergeChannels_insertAll(tgt, src, t) ==
    tgt (+) SetToBag({ [channel_id |-> s.channel_id,
                        channel_country |-> s.channel_country,
                        first_seen_date |-> DateOf(t),
                        last_updated |-> LastUpdatedDefault(t)] : s \in src })

\* variant of MergeChannels whose UPDATE also overwrites first_seen_date
MergeChannels_resetFirstSeen(tgt, src, t) ==
    LET srcOf(c) == CHOOSE s \in src : s.channel_id = c
        matched(row) == \E s \in src : s.channel_id = row.channel_id
        upd(row) == IF matched(row)
                    THEN [row EXCEPT
                            !.channel_country = srcOf(row.channel_id).channel_country,
                            !.first_seen_date = DateOf(t),
                            !.last_updated = t]
                    ELSE row
        fresh == { s \in src :
                     \A row \in BagToSet(tgt) : row.channel_id # s.channel_id }
    IN BagOfAll(upd, tgt)
       (+) SetToBag({ [channel_id |-> s.channel_id,
                       channel_country |-> s.channel_country,
                       first_seen_date |-> DateOf(t),
                       last_updated |-> LastUpdatedDefault(t)] : s \in fresh })

\* MERGE INTO DIM_CHANNELS tgt USING TEMP_CHANNELS src ON channel_id
\*   WHEN MATCHED THEN UPDATE SET ..., last_updated = CURRENT_TIMESTAMP()
\*   WHEN NOT MATCHED THEN INSERT (..., first_seen_date) VALUES (..., CURRENT_DATE())
\* The INSERT names no value for last_updated: the new row has the column
\* default there.
\* (subscriber_count and video_count are overwritten like channel_country
\*  and are not modelled)
MergeChannels(tgt, src, t) ==
    LET srcOf(c) == CHOOSE s \in src : s.channel_id = c
        matched(row) == \E s \in src : s.channel_id = row.channel_id
        upd(row) == IF matched(row)
                    THEN [row EXCEPT
                            !.channel_country = srcOf(row.channel_id).channel_country,
                            !.last_updated = t]
                    ELSE row
        fresh == { s \in src :
                     \A row \in BagToSet(tgt) : row.channel_id # s.channel_id }
    IN BagOfAll(upd, tgt)
       (+) SetToBag({ [channel_id |-> s.channel_id,
                       channel_country |-> s.channel_country,
                       first_seen_date |-> DateOf(t),
                       last_updated |-> LastUpdatedDefault(t)] : s \in fresh })

\* the projection of a staging row inside the USING (...) subquery
FactRow(j) ==
    [video_id |-> j.video_id, channel_id |-> j.channel_id,
     final_sentiment |-> j.final_sentiment, view_count |-> j.view_count,
     collected_at |-> j.collected_at, collection_date |-> DateOf(j.collected_at),
     search_keyword |-> j.search_keyword]

\* variant of MergeFacts whose ON condition never matches: every source row
\* is inserted
MergeFacts_insertAll(tgt, stg) ==
    tgt (+) SetToBag({ FactRow(row.raw_json) :
                         row \in { x \in BagToSet(stg) : x.raw_json.video_id # NULL } })

\* variant of MergeFacts with a WHEN MATCHED THEN UPDATE clause: a matched
\* row takes the counts of a source row
MergeFacts_update(tgt, stg) ==
    LET src == { FactRow(row.raw_json) :
                   row \in { x \in BagToSet(stg) : x.raw_json.video_id # NULL } }
        matched(row) == \E s \in src : s.video_id = row.video_id
        upd(row) == IF matched(row)
                    THEN CHOOSE s \in src : s.video_id = row.video_id
                    ELSE row
        fresh == { s \in src :
                     \A row \in BagToSet(tgt) : row.video_id # s.video_id }
    IN BagOfAll(upd, tgt) (+) SetToBag(fresh)

\* MERGE INTO FACT_VIDEOS tgt USING (SELECT DISTINCT ... FROM STG_VIDEOS
\*   WHERE raw_json:video_id IS NOT NULL) src ON tgt.video_id = src.video_id
\*   WHEN NOT MATCHED THEN INSERT ...
MergeFacts(tgt, stg) ==
    LET src == { FactRow(row.raw_json) :
                   row \in { x \in BagToSet(stg) : x.raw_json.video_id # NULL } }
        fresh == { s \in src :
                     \A row \in BagToSet(tgt) : row.video_id # s.video_id }
    IN tgt (+) SetToBag(fresh)

\* variant of DeleteAggToday that deletes nothing
DeleteAggToday_none(a, d) == a

\* DELETE FROM AGG_DAILY_BY_REGION WHERE analysis_date = CURRENT_DATE()
DeleteAggToday(a, d) ==
    LET keep == { row \in BagToSet(a) : row.analysis_date # d }
    IN [row \in keep |-> a[row]]

\* INSERT INTO AGG_DAILY_BY_REGION SELECT CURRENT_DATE(), ch.channel_country,
\*   v.final_sentiment, COUNT(*), SUM(v.view_count), ...
\*   FROM FACT_VIDEOS v JOIN DIM_CHANNELS ch ON v.channel_id = ch.channel_id
\*   WHERE v.collection_date = CURRENT_DATE()
\*   GROUP BY ch.channel_country, v.final_sentiment
\* (total_likes, total_comments and avg_engagement_rate aggregate the same
\*  joined rows as total_views and are not modelled)
InsertAggToday(a, fct, dm, d) ==
    LET joined == { p \in BagToSet(fct) \X BagToSet(dm) :
                      /\ p[1].channel_id = p[2].channel_id
                      /\ p[1].collection_date = d }
        copies == [p \in joined |-> fct[p[1]] * dm[p[2]]]
        views == [p \in joined |-> copies[p] * p[1].view_count]
        keys == { <<p[2].channel_country, p[1].final_sentiment>> : p \in joined }
        grp(k) == { p \in joined : /\ p[2].channel_country = k[1]
                                   /\ p[1].final_sentiment = k[2] }
    IN a (+) SetToBag({ [analysis_date |-> d, channel_country |-> k[1],
                         final_sentiment |-> k[2],
                         video_count |-> SumOver(copies, grp(k)),
                         total_views |-> SumOver(views, grp(k))] : k \in keys })

\* TRUNCATE TABLE STG_VIDEOS
TruncateStaging == EmptyBag

\* ------------------------------------------------------------ object store
\* the catalog: which video the search returns for which keyword, and the
\* country a channel reports at time t
SearchHits == {<<"v1", "technology">>, <<"v1", "AI">>, <<"v2", "technology">>}
CountryAt(c, t) == IF t = 0 THEN "US" ELSE "GB"

\* ------------------------------------------------------- record assembler
\* config.REGIONS and config.SEARCH_KEYWORDS in the order the loops visit
\* them (the first two of each), and the (region, keyword) combinations
REGIONS == <<"US", "GB">>
SEARCH_KEYWORDS == <<"technology", "AI">>
Combinations == 1..(Len(REGIONS) * Len(SEARCH_KEYWORDS))
RegionOf(i) == REGIONS[((i - 1) \div Len(SEARCH_KEYWORDS)) + 1]
KeywordOf(i) == SEARCH_KEYWORDS[((i - 1) % Len(SEARCH_KEYWORDS)) + 1]

\* the video resource the API holds for a video id: well formed, with a
\* category code that is no integer, or without its statistics part
ResourceKinds == {"ok", "bad_category", "no_statistics"}
VideoDetails(yt, v) ==
    LET categoryId == IF yt.resources[v] = "bad_category" THEN "n/a"
                      ELSE IF v = "v1" THEN "28" ELSE "22"
    IN IF v = "v1"
       THEN [categoryId |-> categoryId, title |-> <<"Great">>, description |-> <<>>,
             tags |-> <<"best">>]
       ELSE [categoryId |-> categoryId, title |-> <<"worst">>,
             description |-> <<"vlog">>, tags |-> <<>>]
HasStatistics(yt, v) == yt.resources[v] # "no_statistics"
\* video.get('statistics', {})
VideoStatistics(yt, v) ==
    IF ~HasStatistics(yt, v) THEN <<>>
    ELSE IF v = "v1"
    THEN [viewCount |-> <<2, 0, 0>>, likeCount |-> <<1, 0>>, commentCount |-> <<1, 0>>]
    ELSE [likeCount |-> <<7>>]

\* the exception assembling the record of a video raises, "none" when it
\* raises none: ValueError from classify_video and from int(categoryId),
\* KeyError from video['statistics']
AssemblyError(yt, v) ==
    IF classify_video(VideoDetails(yt, v)) = Raised("ValueError") THEN "ValueError"
    ELSE IF ~HasStatistics(yt, v) THEN "KeyError"
    ELSE "none"

\* the video_record dictionary of one video found for one combination
video_record(yt, v, region, keyword) ==
    LET classified == classify_video(VideoDetails(yt, v))
    IN [video_id |-> v,
        channel_id |-> ChannelOf(v),
        category_id |-> ParseInt(VideoDetails(yt, v).categoryId),
        view_count |-> GetCount(VideoStatistics(yt, v), "viewCount"),
        engagement_rate |->
            CHOOSE e \in calculate_engagement(VideoStatistics(yt, v)) : TRUE,
        search_keyword |-> keyword,
        search_region |-> region,
        final_sentiment |-> classified.final_sentiment,
        classification_method |-> classified.classification_method]

\* the records of the videos of one combination, in the order returned
RECURSIVE RecordsOf(_, _, _, _)
RecordsOf(yt, videos, region, keyword) ==
    IF videos = <<>> THEN <<>>
    ELSE <<video_record(yt, Head(videos), region, keyword)>>
            \o RecordsOf(yt, Tail(videos), region, keyword)

\* a sequence without the elements of the set seen and without repetitions
RECURSIVE Unseen(_, _)
Unseen(ids, seen) ==
    IF ids = <<>> THEN <<>>
    ELSE IF Head(ids) \in seen THEN Unseen(Tail(ids), seen)
    ELSE <<Head(ids)>> \o Unseen(Tail(ids), seen \cup {Head(ids)})

\* the records appended by the loops over regions and keywords from
\* combination i on: one per video the search and the detail request return
RECURSIVE AppendedFrom(_, _)
AppendedFrom(yt, i) ==
    IF i \notin Combinations THEN <<>>
    ELSE RecordsOf(yt, yt.search[i], RegionOf(i), KeywordOf(i))
            \o AppendedFrom(yt, i + 1)

\* the same without the videos an earlier combination returned
RECURSIVE AppendedOnceFrom(_, _)
AppendedOnceFrom(yt, i) ==
    IF i \notin Combinations THEN <<>>
    ELSE LET seen == UNION { { yt.search[j][n] : n \in DOMAIN yt.search[j] } :
                             j \in 1..(i - 1) }
         IN RecordsOf(yt, Unseen(yt.search[i], seen), RegionOf(i), KeywordOf(i))
                \o AppendedOnceFrom(yt, i + 1)

\* variant of all_videos that skips a video an earlier combination returned
all_videos_deduplicated(yt) == AppendedOnceFrom(yt, 1)

\* all_videos after the loops over regions and keywords
all_videos(yt) == AppendedFrom(yt, 1)

\* the videos the loops come to, in their order, and the exception the first
\* malformed one of them raises out of collect_data ("none": it returns)
RECURSIVE HitsFrom(_, _)
HitsFrom(yt, i) ==
    IF i \notin Combinations THEN <<>> ELSE yt.search[i] \o HitsFrom(yt, i + 1)
collect_data_raises(yt) ==
    LET hits == HitsFrom(yt, 1)
        bad == { n \in DOMAIN hits : AssemblyError(yt, hits[n]) # "none" }
    IN IF bad = {} THEN "none"
       ELSE AssemblyError(yt, hits[CHOOSE n \in bad : \A m \in bad : n <= m])

\* list(all_channels.keys()): the channel ids of the records in the order of
\* their first occurrence
channel_ids(videos) ==
    Unseen([n \in DOMAIN videos |-> videos[n].channel_id], {})

\* get_channel_details(channel_ids): the channel resources the API returns
\* for the ids; none when the request raises
RECURSIVE get_channel_details(_, _)
get_channel_details(yt, ids) ==
    IF ids = <<>> THEN <<>>
    ELSE (IF Head(ids) \in yt.channels THEN <<Head(ids)>> ELSE <<>>)
            \o get_channel_details(yt, Tail(ids))

\* channel_records: one record per channel resource returned
channel_records(yt, videos) ==
    LET channels == get_channel_details(yt, channel_ids(videos))
    IN [n \in DOMAIN channels |->
            [channel_id |-> channels[n], channel_country |-> CountryAt(channels[n], 0)]]

\* nothing searched, nothing collected
NoYouTube == [search |-> <<>>, channels |-> {}, resources |-> <<>>]
NoCollection == [returned |-> FALSE, raised |-> "none", videos |-> <<>>, channels |-> <<>>]

\* records collect_data can assemble at time t: one per (video, keyword) hit
VideoRecords(t) ==
    { [video_id |-> h[1], channel_id |-> ChannelOf(h[1]),
       search_keyword |-> h[2], final_sentiment |-> SentimentOf(h[1]),
       view_count |-> 10 * (t + 1), collected_at |-> t] : h \in SearchHits }

\* batches of at most MaxRecs records, never empty (the entry point returns
\* before the upload when nothing was collected)
VideoBatches(t) ==
    { b \in SUBSET VideoRecords(t) : Cardinality(b) \in 1..MaxRecs }

\* channel records of a batch: one per channel the lookup returned
ChannelBatches(b, t) ==
    LET ids == { rec.channel_id : rec \in b }
    IN { [c \in got |-> CountryAt(c, t)] : got \in SUBSET ids }

Put(blobs, name, payload) ==
    [f \in DOMAIN blobs \cup {name} |-> IF f = name THEN payload ELSE blobs[f]]

\* ------------------------------------------------------------ run helpers
Phases == <<"staging", "channels", "facts", "aggregations", "cleanup">>
PhaseNames == {Phases[i] : i \in 1..Len(Phases)}
\* variant of Critical in which a FactMerger failure does not end the run
Critical_noFacts == {"staging", "channels"}
Critical == {"staging", "channels", "facts"}
IndexOf(ph) == CHOOSE i \in 1..Len(Phases) : Phases[i] = ph

At(r, ph, step) == pc[r] = <<ph, step>>
Goto(r, ph, step) == pc' = [pc EXCEPT ![r] = <<ph, step>>]
Log(r, op, ok) ==
    events' = [events EXCEPT ![r] = Append(@, [op |-> op, ok |-> ok])]

\* a statement leaving the session's view as nv: committed at once under
\* AUTOCOMMIT, otherwise kept in the open transaction
Exec(r, nv) ==
    IF autocommit[r]
    THEN /\ staging' = nv.staging /\ dim' = nv.dim
         /\ fact' = nv.fact /\ agg' = nv.agg
         /\ UNCHANGED tx
    ELSE /\ tx' = [tx EXCEPT ![r] =
                     [del |-> [t \in TableNames |-> Committed[t] (-) nv[t]],
                      ins |-> [t \in TableNames |-> nv[t] (-) Committed[t]]]]
         /\ UNCHANGED tables

\* variant of AfterPhase that leaves out the phase after a committed one
AfterPhase_skip(r, ph) ==
    IF IndexOf(ph) + 2 > Len(Phases)
    THEN /\ Goto(r, ph, "close") /\ ret' = [ret EXCEPT ![r] = "True"]
    ELSE /\ Goto(r, Phases[IndexOf(ph) + 2], "body") /\ UNCHANGED ret

\* the statement after the phase body succeeded / after the handler of a
\* failed phase: next phase, or the return statement
AfterPhase(r, ph) ==
    IF ph = "cleanup"
    THEN /\ Goto(r, ph, "close") /\ ret' = [ret EXCEPT ![r] = "True"]
    ELSE /\ Goto(r, Phases[IndexOf(ph) + 1], "body") /\ UNCHANGED ret

\* a warehouse call raises only while the fault budget lasts
Inject(failed) ==
    /\ failed => faultsLeft > 0
    /\ faultsLeft' = IF failed THEN faultsLeft - 1 ELSE faultsLeft

AllIdle == \A r \in RunIds : pc[r] = <<"none", "idle">>

\* MERGE, UPDATE and DELETE lock the table they change until their
\* transaction ends: the statement of run r waits while another session has
\* uncommitted changes of table t (INSERT takes no such lock)
Locked(r, t) ==
    \E q \in RunIds \ {r} : tx[q].del[t] # EmptyBag \/ tx[q].ins[t] # EmptyBag

\* ------------------------------------------------------------ environment
\* the clock advances between runs
Tick ==
    /\ now < MaxClock
    /\ AllIdle
    /\ now' = now + 1
    /\ UNCHANGED <<store, concurrency, collector, tables, pc, session, tx, temps,
                   faultsLeft, ret, events,
                   pre, runsLeft>>

\* upload_to_azure: the videos blob and the channels blob of one timestamp
\* (overwrite=True)
upload_to_azure ==
    /\ uploadsLeft > 0
    /\ AllIdle
    /\ \E b \in VideoBatches(now) : \E ch \in ChannelBatches(b, now) :
          /\ videosBlobs' = Put(videosBlobs, now, b)
          /\ channelsBlobs' = Put(channelsBlobs, now, ch)
    /\ uploadsLeft' = uploadsLeft - 1
    /\ UNCHANGED <<now, runsLeft, concurrency, collector, tables, pc, session, tx,
                   temps, faultsLeft, ret,
                   events, pre>>

\* ------------------------------------------------------- load_todays_data
\* a new SnowflakeLoaderService and the call of connect() that opens
\* load_todays_data; step: 0 connector.connect raises, 1 a USE statement
\* raises after connection and cursor exist, 2 connected.  The session's
\* AUTOCOMMIT parameter is the account's: the code does not set it.
connect(r) ==
    /\ pc[r] = <<"none", "idle">>
    /\ \A q \in RunIds : q < r => pc[q] # <<"none", "idle">>
    /\ Cardinality({ q \in RunIds : pc[q] # <<"none", "idle">> }) < concurrency
    /\ runsLeft > 0
    /\ runsLeft' = runsLeft - 1
    /\ \E step \in 0..2 : \E ac \in BOOLEAN :
          /\ Inject(step < 2)
          /\ conn' = [conn EXCEPT ![r] = IF step >= 1 THEN "open" ELSE "none"]
          /\ cursor' = [cursor EXCEPT ![r] = IF step >= 1 THEN "open" ELSE "none"]
          /\ autocommit' = [autocommit EXCEPT ![r] = ac]
          /\ Log(r, "connect", step = 2)
          /\ IF step = 2
             THEN /\ Goto(r, "staging", "body")
                  /\ UNCHANGED ret
             ELSE /\ Goto(r, "none", "done")
                  /\ ret' = [ret EXCEPT ![r] = "False"]
    /\ date_path' = [date_path EXCEPT ![r] = DateOf(now)]
    /\ pre' = [pre EXCEPT ![r] = Committed]
    /\ UNCHANGED <<now, store, concurrency, collector, tables, tx, temps>>

\* _load_videos_to_staging; failAt: 0 none, 1 CREATE TABLE IF NOT EXISTS,
\* 2 CREATE OR REPLACE TEMPORARY TABLE TEMP_VIDEOS, 3 INSERT
load_videos_to_staging(r) ==
    /\ At(r, "staging", "body")
    /\ \E failAt \in 0..3 :
         LET temp == SelectTempVideos(videosBlobs, date_path[r]) IN
          /\ Inject(failAt # 0)
          /\ tempVideos' = IF failAt \in {0, 3}
                           THEN [tempVideos EXCEPT ![r] = temp] ELSE tempVideos
          /\ IF failAt = 0
             THEN Exec(r, [View(r) EXCEPT !.staging = InsertStaging(@, temp)])
             ELSE UNCHANGED <<tables, tx>>
          /\ Log(r, "staging", failAt = 0)
          /\ Goto(r, "staging", IF failAt = 0 THEN "commit" ELSE "rollback")
    /\ UNCHANGED <<now, store, concurrency, collector, runsLeft, session, tempChannels, ret, pre>>

\* _load_channels; failAt: 0 none, 1 CREATE OR REPLACE TEMPORARY TABLE
\* TEMP_CHANNELS, 2 MERGE
load_channels(r) ==
    /\ At(r, "channels", "body")
    /\ \E failAt \in 0..2 :
         LET temp == SelectTempChannels(channelsBlobs, date_path[r]) IN
          /\ Inject(failAt # 0)
          /\ failAt = 0 => ~Locked(r, "dim")
          /\ tempChannels' = IF failAt \in {0, 2}
                             THEN [tempChannels EXCEPT ![r] = temp]
                             ELSE tempChannels
          /\ IF failAt = 0
             THEN Exec(r, [View(r) EXCEPT !.dim = MergeChannels(@, temp, now)])
             ELSE UNCHANGED <<tables, tx>>
          /\ Log(r, "channels", failAt = 0)
          /\ Goto(r, "channels", IF failAt = 0 THEN "commit" ELSE "rollback")
    /\ UNCHANGED <<now, store, concurrency, collector, runsLeft, session, tempVideos, ret, pre>>

\* _load_video_facts: the single MERGE succeeds or raises
load_video_facts(r) ==
    /\ At(r, "facts", "body")
    /\ \E ok \in BOOLEAN :
          /\ Inject(~ok)
          /\ ok => ~Locked(r, "fact")
          /\ IF ok
             THEN Exec(r, [View(r) EXCEPT
                             !.fact = MergeFacts(@, View(r).staging)])
             ELSE UNCHANGED <<tables, tx>>
          /\ Log(r, "facts", ok)
          /\ Goto(r, "facts", IF ok THEN "commit" ELSE "rollback")
    /\ UNCHANGED <<now, store, concurrency, collector, runsLeft, session, temps, ret, pre>>

\* _refresh_aggregations up to its DELETE; failAt: 0 none, 1 CREATE SCHEMA,
\* 2 CREATE TABLE, 3 DELETE
refresh_aggregations(r) ==
    /\ At(r, "aggregations", "body")
    /\ \E failAt \in 0..3 :
          /\ Inject(failAt # 0)
          /\ failAt = 0 => ~Locked(r, "agg")
          /\ IF failAt = 0
             THEN /\ Exec(r, [View(r) EXCEPT
                                !.agg = DeleteAggToday(@, DateOf(now))])
                  /\ Goto(r, "aggregations", "insert")
                  /\ UNCHANGED events
             ELSE /\ Log(r, "aggregations", FALSE)
                  /\ Goto(r, "aggregations", "rollback")
                  /\ UNCHANGED <<tables, tx>>
    /\ UNCHANGED <<now, store, concurrency, collector, runsLeft, session, temps, ret, pre>>

\* the INSERT ... SELECT that ends _refresh_aggregations
refresh_aggregations_insert(r) ==
    /\ At(r, "aggregations", "insert")
    /\ \E ok \in BOOLEAN :
         LET v == View(r) IN
          /\ Inject(~ok)
          /\ IF ok
             THEN Exec(r, [v EXCEPT
                             !.agg = InsertAggToday(@, v.fact, v.dim, DateOf(now))])
             ELSE UNCHANGED <<tables, tx>>
          /\ Log(r, "aggregations", ok)
          /\ Goto(r, "aggregations", IF ok THEN "commit" ELSE "rollback")
    /\ UNCHANGED <<now, store, concurrency, collector, runsLeft, session, temps, ret, pre>>

\* _cleanup_staging: TRUNCATE TABLE is DDL, it is committed by the statement
cleanup_staging(r) ==
    /\ At(r, "cleanup", "body")
    /\ \E ok \in BOOLEAN :
          /\ Inject(~ok)
          /\ staging' = IF ok THEN TruncateStaging ELSE staging
          /\ Log(r, "cleanup", ok)
          /\ Goto(r, "cleanup", IF ok THEN "commit" ELSE "rollback")
    /\ UNCHANGED <<now, store, concurrency, collector, runsLeft, dim, fact, agg, tx, session, temps, ret, pre>>

\* self.conn.commit() after a phase body
commit(r) ==
    /\ \E ph \in PhaseNames :
         /\ At(r, ph, "commit")
         /\ \E ok \in BOOLEAN :
              /\ Inject(~ok)
              /\ Log(r, "commit", ok)
              /\ IF ok
                 THEN /\ staging' = View(r).staging /\ dim' = View(r).dim
                      /\ fact' = View(r).fact /\ agg' = View(r).agg
                      /\ tx' = [tx EXCEPT ![r] = EmptyTx]
                      /\ AfterPhase(r, ph)
                 ELSE /\ Goto(r, ph, "rollback")
                      /\ UNCHANGED <<tables, tx, ret>>
    /\ UNCHANGED <<now, store, concurrency, collector, runsLeft, session, temps, pre>>

\* variant of rollback whose handler logs the failure and issues no ROLLBACK
rollback_absent(r) ==
    /\ \E ph \in PhaseNames :
         /\ At(r, ph, "rollback")
         /\ Log(r, "rollback", TRUE)
         /\ IF ph \in Critical
            THEN /\ Goto(r, ph, "close")
                 /\ ret' = [ret EXCEPT ![r] = "False"]
            ELSE AfterPhase(r, ph)
    /\ UNCHANGED <<now, store, concurrency, collector, runsLeft, tables, tx, session, temps, pre,
                   faultsLeft>>

\* self.conn.rollback() in the handler of a phase: a critical phase then
\* returns False, a non-critical phase falls through to the next statement;
\* an exception raised by the rollback reaches the outer handler
rollback(r) ==
    /\ \E ph \in PhaseNames :
         /\ At(r, ph, "rollback")
         /\ \E ok \in BOOLEAN :
              /\ Inject(~ok)
              /\ Log(r, "rollback", ok)
              /\ IF ok
                 THEN /\ tx' = [tx EXCEPT ![r] = EmptyTx]
                      /\ IF ph \in Critical
                         THEN /\ Goto(r, ph, "close")
                              /\ ret' = [ret EXCEPT ![r] = "False"]
                         ELSE AfterPhase(r, ph)
                 ELSE /\ Goto(r, ph, "outer")
                      /\ UNCHANGED <<tx, ret>>
    /\ UNCHANGED <<now, store, concurrency, collector, runsLeft, tables, session, temps, pre>>

\* the outer `except Exception`: rollback, then return False; an exception
\* raised by this rollback leaves load_todays_data
outer_rollback(r) ==
    /\ \E ph \in PhaseNames :
         /\ At(r, ph, "outer")
         /\ \E ok \in BOOLEAN :
              /\ Inject(~ok)
              /\ Log(r, "rollback", ok)
              /\ tx' = IF ok THEN [tx EXCEPT ![r] = EmptyTx] ELSE tx
              /\ ret' = [ret EXCEPT ![r] = IF ok THEN "False" ELSE "raised"]
              /\ Goto(r, ph, "close")
    /\ UNCHANGED <<now, store, concurrency, collector, runsLeft, tables, session, temps, pre>>

\* finally: self.close(); step: 0 cursor.close raises, 1 conn.close raises,
\* 2 both closed.  An exception raised here replaces the pending return.
\* Closing the connection ends its session and aborts an open transaction.
close(r) ==
    /\ \E ph \in PhaseNames :
         /\ At(r, ph, "close")
         /\ Goto(r, ph, "done")
    /\ \E step \in 0..2 :
          /\ Inject(step < 2)
          /\ cursor' = [cursor EXCEPT ![r] = IF step >= 1 THEN "closed" ELSE @]
          /\ conn' = [conn EXCEPT ![r] = IF step = 2 THEN "closed" ELSE @]
          /\ tx' = IF step = 2 THEN [tx EXCEPT ![r] = EmptyTx] ELSE tx
          /\ ret' = IF step = 2 THEN ret ELSE [ret EXCEPT ![r] = "raised"]
          /\ Log(r, "close", step = 2)
    /\ UNCHANGED <<now, store, concurrency, collector, runsLeft, tables, autocommit, date_path, temps, pre>>

\* the caller drops the SnowflakeLoaderService once load_todays_data is over
dispose(r) ==
    /\ pc[r][2] = "done"
    /\ pc' = [pc EXCEPT ![r] = <<"none", "idle">>]
    /\ conn' = [conn EXCEPT ![r] = "none"]
    /\ cursor' = [cursor EXCEPT ![r] = "none"]
    /\ autocommit' = [autocommit EXCEPT ![r] = TRUE]
    /\ date_path' = [date_path EXCEPT ![r] = 0]
    /\ tx' = [tx EXCEPT ![r] = EmptyTx]
    /\ tempVideos' = [tempVideos EXCEPT ![r] = {}]
    /\ tempChannels' = [tempChannels EXCEPT ![r] = {}]
    /\ ret' = [ret EXCEPT ![r] = "none"]
    /\ events' = [events EXCEPT ![r] = <<>>]
    /\ pre' = [pre EXCEPT ![r] = NoRows]
    /\ UNCHANGED <<now, store, concurrency, collector, runsLeft, tables, faultsLeft>>

\* --------------------------------------------------------- specification
Init ==
    /\ now = 0
    /\ uploadsLeft = MaxUploads
    /\ runsLeft = MaxRuns
    /\ videosBlobs = <<>>
    /\ channelsBlobs = <<>>
    /\ staging = EmptyBag
    /\ dim = EmptyBag
    /\ fact = EmptyBag
    /\ agg = EmptyBag
    /\ pc = [r \in RunIds |-> <<"none", "idle">>]
    /\ conn = [r \in RunIds |-> "none"]
    /\ cursor = [r \in RunIds |-> "none"]
    /\ autocommit = [r \in RunIds |-> TRUE]
    /\ tx = [r \in RunIds |-> EmptyTx]
    /\ date_path = [r \in RunIds |-> 0]
    /\ tempVideos = [r \in RunIds |-> {}]
    /\ tempChannels = [r \in RunIds |-> {}]
    /\ faultsLeft = MaxFaults
    /\ ret = [r \in RunIds |-> "none"]
    /\ events = [r \in RunIds |-> <<>>]
    /\ pre = [r \in RunIds |-> NoRows]
    /\ concurrency = 1
    /\ video_data = NoVideo
    /\ classification = NoClassification
    /\ config = AzureFunctionConfig
    /\ statistics = NoStatistics
    /\ engagement = NoEngagement
    /\ youtube = NoYouTube
    /\ collection = NoCollection
    /\ environ = EnvKeys
    /\ entry_point = "none"
    /\ steps = <<>>
    /\ outcome = "none"
    /\ raising = {}

Next ==
    \/ Tick
    \/ upload_to_azure
    \/ \E r \in RunIds : connect(r)
    \/ \E r \in RunIds : load_videos_to_staging(r)
    \/ \E r \in RunIds : load_channels(r)
    \/ \E r \in RunIds : load_video_facts(r)
    \/ \E r \in RunIds : refresh_aggregations(r)
    \/ \E r \in RunIds : refresh_aggregations_insert(r)
    \/ \E r \in RunIds : cleanup_staging(r)
    \/ \E r \in RunIds : commit(r)
    \/ \E r \in RunIds : rollback(r)
    \/ \E r \in RunIds : outer_rollback(r)
    \/ \E r \in RunIds : close(r)
    \/ \E r \in RunIds : dispose(r)

Spec == Init /\ [][Next]_vars

\* one upload and one run of load_todays_data in which up to MaxRunFaults
\* calls fail
InitRun ==
    /\ now = 0
    /\ uploadsLeft = 1
    /\ runsLeft = 1
    /\ videosBlobs = <<>>
    /\ channelsBlobs = <<>>
    /\ staging = EmptyBag
    /\ dim = EmptyBag
    /\ fact = EmptyBag
    /\ agg = EmptyBag
    /\ pc = [r \in RunIds |-> <<"none", "idle">>]
    /\ conn = [r \in RunIds |-> "none"]
    /\ cursor = [r \in RunIds |-> "none"]
    /\ autocommit = [r \in RunIds |-> TRUE]
    /\ tx = [r \in RunIds |-> EmptyTx]
    /\ date_path = [r \in RunIds |-> 0]
    /\ tempVideos = [r \in RunIds |-> {}]
    /\ tempChannels = [r \in RunIds |-> {}]
    /\ faultsLeft = MaxRunFaults
    /\ ret = [r \in RunIds |-> "none"]
    /\ events = [r \in RunIds |-> <<>>]
    /\ pre = [r \in RunIds |-> NoRows]
    /\ concurrency = 1
    /\ video_data = NoVideo
    /\ classification = NoClassification
    /\ config = AzureFunctionConfig
    /\ statistics = NoStatistics
    /\ engagement = NoEngagement
    /\ youtube = NoYouTube
    /\ collection = NoCollection
    /\ environ = EnvKeys
    /\ entry_point = "none"
    /\ steps = <<>>
    /\ outcome = "none"
    /\ raising = {}

SpecRun == InitRun /\ [][Next]_vars

\* the same with progress: the interpreter keeps executing the statements of
\* a run that has one to execute, and a warehouse call returns or raises
SpecRunLive == InitRun /\ [][Next]_vars /\ WF_vars(Next)

\* the files of an earlier collection of the day: one video found under one
\* keyword, and its channel
EarlierVideos ==
    (0 :> { rec \in VideoRecords(0) :
              rec.video_id = "v1" /\ rec.search_keyword = "technology" })
EarlierChannels == (0 :> ("c1" :> CountryAt("c1", 0)))

\* two invocations of load_todays_data that may overlap, a retried invocation
\* next to the scheduled one; the object store holds the files of an earlier
\* collection, made at time 0, and one more upload may follow
InitOverlap ==
    /\ now = 1
    /\ uploadsLeft = 1
    /\ runsLeft = 2
    /\ videosBlobs = EarlierVideos
    /\ channelsBlobs = EarlierChannels
    /\ staging = EmptyBag
    /\ dim = EmptyBag
    /\ fact = EmptyBag
    /\ agg = EmptyBag
    /\ pc = [r \in RunIds |-> <<"none", "idle">>]
    /\ conn = [r \in RunIds |-> "none"]
    /\ cursor = [r \in RunIds |-> "none"]
    /\ autocommit = [r \in RunIds |-> TRUE]
    /\ tx = [r \in RunIds |-> EmptyTx]
    /\ date_path = [r \in RunIds |-> 0]
    /\ tempVideos = [r \in RunIds |-> {}]
    /\ tempChannels = [r \in RunIds |-> {}]
    /\ faultsLeft = MaxFaults
    /\ ret = [r \in RunIds |-> "none"]
    /\ events = [r \in RunIds |-> <<>>]
    /\ pre = [r \in RunIds |-> NoRows]
    /\ concurrency = 2
    /\ video_data = NoVideo
    /\ classification = NoClassification
    /\ config = AzureFunctionConfig
    /\ statistics = NoStatistics
    /\ engagement = NoEngagement
    /\ youtube = NoYouTube
    /\ collection = NoCollection
    /\ environ = EnvKeys
    /\ entry_point = "none"
    /\ steps = <<>>
    /\ outcome = "none"
    /\ raising = {}

SpecOverlap == InitOverlap /\ [][Next]_vars

\* upload_to_azure of an invocation that overlaps another one: the function
\* uploads before its own load starts, while the load of the earlier
\* invocation may be running
upload_to_azure_overlapping ==
    /\ uploadsLeft > 0
    /\ runsLeft > 0
    /\ \E b \in VideoBatches(now) : \E ch \in ChannelBatches(b, now) :
          /\ videosBlobs' = Put(videosBlobs, now, b)
          /\ channelsBlobs' = Put(channelsBlobs, now, ch)
    /\ uploadsLeft' = uploadsLeft - 1
    /\ UNCHANGED <<now, runsLeft, concurrency, collector, tables, pc, session, tx,
                   temps, faultsLeft, ret,
                   events, pre>>

\* two overlapping invocations of YouTubeCollectorFunction within one day,
\* each uploading its files and then loading
NextInvocations ==
    \/ upload_to_azure_overlapping
    \/ \E r \in RunIds : connect(r)
    \/ \E r \in RunIds : load_videos_to_staging(r)
    \/ \E r \in RunIds : load_channels(r)
    \/ \E r \in RunIds : load_video_facts(r)
    \/ \E r \in RunIds : refresh_aggregations(r)
    \/ \E r \in RunIds : refresh_aggregations_insert(r)
    \/ \E r \in RunIds : cleanup_staging(r)
    \/ \E r \in RunIds : commit(r)
    \/ \E r \in RunIds : rollback(r)
    \/ \E r \in RunIds : outer_rollback(r)
    \/ \E r \in RunIds : close(r)
    \/ \E r \in RunIds : dispose(r)

SpecInvocations == InitOverlap /\ [][NextInvocations]_vars

\* a run of load_todays_data and a second one for the same date over the
\* same files, started while the first service object still exists; up to
\* MaxFaults calls fail
InitRetry ==
    /\ now = 1
    /\ uploadsLeft = 0
    /\ runsLeft = 2
    /\ videosBlobs = EarlierVideos
    /\ channelsBlobs = EarlierChannels
    /\ staging = EmptyBag
    /\ dim = EmptyBag
    /\ fact = EmptyBag
    /\ agg = EmptyBag
    /\ pc = [r \in RunIds |-> <<"none", "idle">>]
    /\ conn = [r \in RunIds |-> "none"]
    /\ cursor = [r \in RunIds |-> "none"]
    /\ autocommit = [r \in RunIds |-> TRUE]
    /\ tx = [r \in RunIds |-> EmptyTx]
    /\ date_path = [r \in RunIds |-> 0]
    /\ tempVideos = [r \in RunIds |-> {}]
    /\ tempChannels = [r \in RunIds |-> {}]
    /\ faultsLeft = MaxFaults
    /\ ret = [r \in RunIds |-> "none"]
    /\ events = [r \in RunIds |-> <<>>]
    /\ pre = [r \in RunIds |-> NoRows]
    /\ concurrency = 2
    /\ video_data = NoVideo
    /\ classification = NoClassification
    /\ config = AzureFunctionConfig
    /\ statistics = NoStatistics
    /\ engagement = NoEngagement
    /\ youtube = NoYouTube
    /\ collection = NoCollection
    /\ environ = EnvKeys
    /\ entry_point = "none"
    /\ steps = <<>>
    /\ outcome = "none"
    /\ raising = {}

NextRetry ==
    \/ \E r \in RunIds : connect(r)
    \/ \E r \in RunIds : load_videos_to_staging(r)
    \/ \E r \in RunIds : load_channels(r)
    \/ \E r \in RunIds : load_video_facts(r)
    \/ \E r \in RunIds : refresh_aggregations(r)
    \/ \E r \in RunIds : refresh_aggregations_insert(r)
    \/ \E r \in RunIds : cleanup_staging(r)
    \/ \E r \in RunIds : commit(r)
    \/ \E r \in RunIds : rollback(r)
    \/ \E r \in RunIds : outer_rollback(r)
    \/ \E r \in RunIds : close(r)
    \/ \E r \in RunIds : dispose(r)

SpecRetry == InitRetry /\ [][NextRetry]_vars

\* DimensionMerger applied twice to one set of channel payloads: the initial
\* dimension table and the payload files are drawn from bounded sets
ChannelSnapshots == UNION { [got -> Countries] : got \in SUBSET ChannelIds }
DimPayloads ==
    UNION { [files -> ChannelSnapshots] : files \in SUBSET (0..(TicksPerDay - 1)) }
\* a row merged at time 0, or inserted the day before the clock starts
Yesterday == 0 - 1
DimRows(c) ==
    { [channel_id |-> c, channel_country |-> k, first_seen_date |-> d,
       last_updated |-> d] : k \in Countries, d \in {Yesterday, 0} }
DimTables ==
    LET picks == { f \in [ChannelIds -> UNION { DimRows(c) : c \in ChannelIds }] :
                     \A c \in ChannelIds : f[c] \in DimRows(c) }
    IN { SetToBag({ pick[c] : c \in present }) :
           pick \in picks, present \in SUBSET ChannelIds }

\* one phase and its commit applied outside a run.  runsLeft counts the
\* applications still to come and events[1] names the phases applied;
\* pre[1] and date_path[1] keep the tables and the date of the latest
\* application, pre[2] and date_path[2] those of the one before it
Applied(ph) ==
    /\ runsLeft > 0
    /\ AllIdle
    /\ runsLeft' = runsLeft - 1
    /\ Log(1, ph, TRUE)
    /\ pre' = [pre EXCEPT ![1] = Committed, ![2] = pre[1]]
    /\ date_path' = [date_path EXCEPT ![1] = DateOf(now), ![2] = date_path[1]]
    /\ UNCHANGED <<now, store, concurrency, collector, pc, conn, cursor, autocommit,
                   tx, faultsLeft, ret>>

apply_load_videos_to_staging ==
    LET temp == SelectTempVideos(videosBlobs, DateOf(now)) IN
    /\ Applied("staging")
    /\ tempVideos' = [tempVideos EXCEPT ![1] = temp]
    /\ staging' = InsertStaging(staging, temp)
    /\ UNCHANGED <<dim, fact, agg, tempChannels>>

apply_load_channels ==
    LET temp == SelectTempChannels(channelsBlobs, DateOf(now)) IN
    /\ Applied("channels")
    /\ tempChannels' = [tempChannels EXCEPT ![1] = temp]
    /\ dim' = MergeChannels(dim, temp, now)
    /\ UNCHANGED <<staging, fact, agg, tempVideos>>

apply_load_video_facts ==
    /\ Applied("facts")
    /\ fact' = MergeFacts(fact, staging)
    /\ UNCHANGED <<staging, dim, agg, temps>>

apply_refresh_aggregations ==
    /\ Applied("aggregations")
    /\ agg' = InsertAggToday(DeleteAggToday(agg, DateOf(now)), fact, dim,
                             DateOf(now))
    /\ UNCHANGED <<staging, dim, fact, temps>>

\* variant of apply_cleanup_staging that deletes the rows of today's files
\* only
apply_cleanup_staging_today ==
    /\ Applied("cleanup")
    /\ staging' = BagOfAll(LAMBDA row : row,
                           [row \in { x \in BagToSet(staging) :
                                        DateOf(x.file_name) # DateOf(now) }
                              |-> staging[row]])
    /\ UNCHANGED <<dim, fact, agg, temps>>

apply_cleanup_staging ==
    /\ Applied("cleanup")
    /\ staging' = TruncateStaging
    /\ UNCHANGED <<dim, fact, agg, temps>>

InitDim ==
    /\ now = 0
    /\ uploadsLeft = 0
    /\ runsLeft = 2
    /\ videosBlobs = <<>>
    /\ channelsBlobs \in DimPayloads
    /\ staging = EmptyBag
    /\ dim \in DimTables
    /\ fact = EmptyBag
    /\ agg = EmptyBag
    /\ pc = [r \in RunIds |-> <<"none", "idle">>]
    /\ conn = [r \in RunIds |-> "none"]
    /\ cursor = [r \in RunIds |-> "none"]
    /\ autocommit = [r \in RunIds |-> TRUE]
    /\ tx = [r \in RunIds |-> EmptyTx]
    /\ date_path = [r \in RunIds |-> 0]
    /\ tempVideos = [r \in RunIds |-> {}]
    /\ tempChannels = [r \in RunIds |-> {}]
    /\ faultsLeft = 0
    /\ ret = [r \in RunIds |-> "none"]
    /\ events = [r \in RunIds |-> <<>>]
    /\ pre = [r \in RunIds |-> NoRows]
    /\ concurrency = 1
    /\ video_data = NoVideo
    /\ classification = NoClassification
    /\ config = AzureFunctionConfig
    /\ statistics = NoStatistics
    /\ engagement = NoEngagement
    /\ youtube = NoYouTube
    /\ collection = NoCollection
    /\ environ = EnvKeys
    /\ entry_point = "none"
    /\ steps = <<>>
    /\ outcome = "none"
    /\ raising = {}

NextDim == Tick \/ apply_load_channels

SpecDim == InitDim /\ [][NextDim]_vars

\* StagingLoader, FactMerger and the other phases applied to warehouse
\* contents left by earlier runs: the payload files of the first day, the
\* staging rows and the fact rows are drawn from bounded sets
StageFiles == 0..1
VideoPayloads ==
    UNION { { b \in [files -> UNION { VideoBatches(f) : f \in files }] :
                \A f \in files : b[f] \in VideoBatches(f) }
            : files \in SUBSET StageFiles }
\* the channels file written next to each videos file
ChannelsFor(blobs) ==
    [f \in DOMAIN blobs |->
        [c \in { rec.channel_id : rec \in blobs[f] } |-> CountryAt(c, f)]]
StagingTables ==
    { SetToBag({ [raw_json |-> rec, file_name |-> 0] : rec \in S })
        : S \in { T \in SUBSET VideoRecords(0) : Cardinality(T) <= 2 } }
FactTables ==
    { SetToBag({ FactRow(rec) : rec \in S }) : S \in SUBSET VideoRecords(0) }

InitStage ==
    /\ now = 0
    /\ uploadsLeft = 0
    /\ runsLeft = 2
    /\ videosBlobs \in VideoPayloads
    /\ channelsBlobs = ChannelsFor(videosBlobs)
    /\ staging \in StagingTables
    /\ dim = EmptyBag
    /\ fact \in FactTables
    /\ agg = EmptyBag
    /\ pc = [r \in RunIds |-> <<"none", "idle">>]
    /\ conn = [r \in RunIds |-> "none"]
    /\ cursor = [r \in RunIds |-> "none"]
    /\ autocommit = [r \in RunIds |-> TRUE]
    /\ tx = [r \in RunIds |-> EmptyTx]
    /\ date_path = [r \in RunIds |-> 0]
    /\ tempVideos = [r \in RunIds |-> {}]
    /\ tempChannels = [r \in RunIds |-> {}]
    /\ faultsLeft = 0
    /\ ret = [r \in RunIds |-> "none"]
    /\ events = [r \in RunIds |-> <<>>]
    /\ pre = [r \in RunIds |-> NoRows]
    /\ concurrency = 1
    /\ video_data = NoVideo
    /\ classification = NoClassification
    /\ config = AzureFunctionConfig
    /\ statistics = NoStatistics
    /\ engagement = NoEngagement
    /\ youtube = NoYouTube
    /\ collection = NoCollection
    /\ environ = EnvKeys
    /\ entry_point = "none"
    /\ steps = <<>>
    /\ outcome = "none"
    /\ raising = {}

NextStage ==
    \/ Tick
    \/ apply_load_videos_to_staging
    \/ apply_load_channels
    \/ apply_load_video_facts
    \/ apply_refresh_aggregations
    \/ apply_cleanup_staging

SpecStage == InitStage /\ [][NextStage]_vars

\* AggregateRefresher applied twice to warehouse contents left by earlier
\* runs: facts of any collection time, a dimension table, and aggregate rows
\* that earlier refreshes computed from these facts under another dimension
\* table
Days == 0..DateOf(MaxClock)
AggFactTables ==
    LET rows == UNION { { FactRow(rec) : rec \in VideoRecords(t) } : t \in 0..MaxClock }
    IN { SetToBag(S) : S \in { T \in SUBSET rows : Cardinality(T) <= 2 } }
AggDims ==
    { d \in DimTables : \A row \in BagToSet(d) : row.first_seen_date = 0 }
RECURSIVE EarlierAgg(_, _, _)
EarlierAgg(fct, dm, D) ==
    IF D = {} THEN EmptyBag
    ELSE LET d == CHOOSE x \in D : TRUE
         IN InsertAggToday(EarlierAgg(fct, dm, D \ {d}), fct, dm, d)

InitAgg ==
    /\ now = 0
    /\ uploadsLeft = 0
    /\ runsLeft = 2
    /\ videosBlobs = <<>>
    /\ channelsBlobs = <<>>
    /\ staging = EmptyBag
    /\ dim \in AggDims
    /\ fact \in AggFactTables
    /\ agg \in { EarlierAgg(fact, dm, D) : dm \in AggDims, D \in SUBSET Days }
    /\ pc = [r \in RunIds |-> <<"none", "idle">>]
    /\ conn = [r \in RunIds |-> "none"]
    /\ cursor = [r \in RunIds |-> "none"]
    /\ autocommit = [r \in RunIds |-> TRUE]
    /\ tx = [r \in RunIds |-> EmptyTx]
    /\ date_path = [r \in RunIds |-> 0]
    /\ tempVideos = [r \in RunIds |-> {}]
    /\ tempChannels = [r \in RunIds |-> {}]
    /\ faultsLeft = 0
    /\ ret = [r \in RunIds |-> "none"]
    /\ events = [r \in RunIds |-> <<>>]
    /\ pre = [r \in RunIds |-> NoRows]
    /\ concurrency = 1
    /\ video_data = NoVideo
    /\ classification = NoClassification
    /\ config = AzureFunctionConfig
    /\ statistics = NoStatistics
    /\ engagement = NoEngagement
    /\ youtube = NoYouTube
    /\ collection = NoCollection
    /\ environ = EnvKeys
    /\ entry_point = "none"
    /\ steps = <<>>
    /\ outcome = "none"
    /\ raising = {}

NextAgg == Tick \/ apply_refresh_aggregations

SpecAgg == InitAgg /\ [][NextAgg]_vars

\* classify_video applied to one video resource: a title of one word, an
\* optional description and up to MaxTags tags
WordSeqs(n) == UNION { [1..k -> Words] : k \in 0..n }
VideoResources ==
    [categoryId : CategoryCodes, title : [1..1 -> Words],
     description : WordSeqs(1), tags : WordSeqs(MaxTags)]

classify ==
    /\ classification = NoClassification
    /\ classification' = classify_video(video_data)
    /\ UNCHANGED <<now, store, runsLeft, concurrency, video_data, config, statistics,
                   engagement, youtube, collection, environ, entry_point, steps,
                   outcome, raising, tables, pc, session,
                   tx, temps, faultsLeft, ret, events, pre>>

InitClassify ==
    /\ now = 0
    /\ uploadsLeft = 0
    /\ runsLeft = 0
    /\ videosBlobs = <<>>
    /\ channelsBlobs = <<>>
    /\ staging = EmptyBag
    /\ dim = EmptyBag
    /\ fact = EmptyBag
    /\ agg = EmptyBag
    /\ pc = [r \in RunIds |-> <<"none", "idle">>]
    /\ conn = [r \in RunIds |-> "none"]
    /\ cursor = [r \in RunIds |-> "none"]
    /\ autocommit = [r \in RunIds |-> TRUE]
    /\ tx = [r \in RunIds |-> EmptyTx]
    /\ date_path = [r \in RunIds |-> 0]
    /\ tempVideos = [r \in RunIds |-> {}]
    /\ tempChannels = [r \in RunIds |-> {}]
    /\ faultsLeft = 0
    /\ ret = [r \in RunIds |-> "none"]
    /\ events = [r \in RunIds |-> <<>>]
    /\ pre = [r \in RunIds |-> NoRows]
    /\ concurrency = 1
    /\ video_data \in VideoResources
    /\ classification = NoClassification
    /\ config = AzureFunctionConfig
    /\ statistics = NoStatistics
    /\ engagement = NoEngagement
    /\ youtube = NoYouTube
    /\ collection = NoCollection
    /\ environ = EnvKeys
    /\ entry_point = "none"
    /\ steps = <<>>
    /\ outcome = "none"
    /\ raising = {}

NextClassify == classify

SpecClassify == InitClassify /\ [][NextClassify]_vars

\* classify_video applied by a service constructed with any configuration whose
\* category sets are drawn from three codes, overlapping sets included, to a
\* video resource without tags
OverlapCodes == {22, 25, 28}
CategoryConfigs ==
    [POSITIVE_CATEGORIES : SUBSET OverlapCodes,
     NEGATIVE_CATEGORIES : SUBSET OverlapCodes,
     MIXED_CATEGORIES : SUBSET OverlapCodes]
UntaggedVideoResources == { v \in VideoResources : v.tags = <<>> }

InitPrecedence ==
    /\ now = 0
    /\ uploadsLeft = 0
    /\ runsLeft = 0
    /\ videosBlobs = <<>>
    /\ channelsBlobs = <<>>
    /\ staging = EmptyBag
    /\ dim = EmptyBag
    /\ fact = EmptyBag
    /\ agg = EmptyBag
    /\ pc = [r \in RunIds |-> <<"none", "idle">>]
    /\ conn = [r \in RunIds |-> "none"]
    /\ cursor = [r \in RunIds |-> "none"]
    /\ autocommit = [r \in RunIds |-> TRUE]
    /\ tx = [r \in RunIds |-> EmptyTx]
    /\ date_path = [r \in RunIds |-> 0]
    /\ tempVideos = [r \in RunIds |-> {}]
    /\ tempChannels = [r \in RunIds |-> {}]
    /\ faultsLeft = 0
    /\ ret = [r \in RunIds |-> "none"]
    /\ events = [r \in RunIds |-> <<>>]
    /\ pre = [r \in RunIds |-> NoRows]
    /\ concurrency = 1
    /\ video_data \in UntaggedVideoResources
    /\ classification = NoClassification
    /\ config \in CategoryConfigs
    /\ statistics = NoStatistics
    /\ engagement = NoEngagement
    /\ youtube = NoYouTube
    /\ collection = NoCollection
    /\ environ = EnvKeys
    /\ entry_point = "none"
    /\ steps = <<>>
    /\ outcome = "none"
    /\ raising = {}

NextPrecedence == classify

SpecPrecedence == InitPrecedence /\ [][NextPrecedence]_vars

\* calculate_engagement applied to one statistics part: each of the three
\* counts is absent or a string of digits
StatisticsKeys == {"viewCount", "likeCount", "commentCount"}
StatisticsParts == UNION { [K -> CountLiterals] : K \in SUBSET StatisticsKeys }

score ==
    /\ engagement = NoEngagement
    /\ engagement' \in calculate_engagement(statistics)
    /\ UNCHANGED <<now, store, runsLeft, concurrency, video_data, classification, config,
                   statistics, youtube, collection, environ, entry_point, steps,
                   outcome, raising, tables, pc, session, tx, temps,
                   faultsLeft, ret, events, pre>>

InitScore ==
    /\ now = 0
    /\ uploadsLeft = 0
    /\ runsLeft = 0
    /\ videosBlobs = <<>>
    /\ channelsBlobs = <<>>
    /\ staging = EmptyBag
    /\ dim = EmptyBag
    /\ fact = EmptyBag
    /\ agg = EmptyBag
    /\ pc = [r \in RunIds |-> <<"none", "idle">>]
    /\ conn = [r \in RunIds |-> "none"]
    /\ cursor = [r \in RunIds |-> "none"]
    /\ autocommit = [r \in RunIds |-> TRUE]
    /\ tx = [r \in RunIds |-> EmptyTx]
    /\ date_path = [r \in RunIds |-> 0]
    /\ tempVideos = [r \in RunIds |-> {}]
    /\ tempChannels = [r \in RunIds |-> {}]
    /\ faultsLeft = 0
    /\ ret = [r \in RunIds |-> "none"]
    /\ events = [r \in RunIds |-> <<>>]
    /\ pre = [r \in RunIds |-> NoRows]
    /\ concurrency = 1
    /\ video_data = NoVideo
    /\ classification = NoClassification
    /\ config = AzureFunctionConfig
    /\ statistics \in StatisticsParts
    /\ engagement = NoEngagement
    /\ youtube = NoYouTube
    /\ collection = NoCollection
    /\ environ = EnvKeys
    /\ entry_point = "none"
    /\ steps = <<>>
    /\ outcome = "none"
    /\ raising = {}

NextScore == score

SpecScore == InitScore /\ [][NextScore]_vars

\* collect_data run once against a catalog: for every combination the videos
\* the search and the detail request return (at most MaxHits, none when a
\* request fails), and the channels the channel lookup returns
MaxHits == 2
HitLists ==
    { h \in UNION { [1..k -> VideoIds] : k \in 0..MaxHits } :
        \A m, n \in DOMAIN h : h[m] = h[n] => m = n }
Catalogs ==
    [search : [Combinations -> HitLists], channels : SUBSET ChannelIds,
     resources : [VideoIds -> ResourceKinds]]

collect_data ==
    /\ collection = NoCollection
    /\ LET videos == all_videos(youtube)
           e == collect_data_raises(youtube)
       IN collection' =
            IF e # "none"
            THEN [returned |-> FALSE, raised |-> e, videos |-> <<>>, channels |-> <<>>]
            ELSE [returned |-> TRUE, raised |-> "none", videos |-> videos,
                  channels |-> channel_records(youtube, videos)]
    /\ UNCHANGED <<now, store, runsLeft, concurrency, video_data, classification, config,
                   statistics, engagement, youtube, environ, entry_point, steps,
                   outcome, raising, tables, pc, session, tx, temps,
                   faultsLeft, ret, events, pre>>

InitCollect ==
    /\ now = 0
    /\ uploadsLeft = 0
    /\ runsLeft = 0
    /\ videosBlobs = <<>>
    /\ channelsBlobs = <<>>
    /\ staging = EmptyBag
    /\ dim = EmptyBag
    /\ fact = EmptyBag
    /\ agg = EmptyBag
    /\ pc = [r \in RunIds |-> <<"none", "idle">>]
    /\ conn = [r \in RunIds |-> "none"]
    /\ cursor = [r \in RunIds |-> "none"]
    /\ autocommit = [r \in RunIds |-> TRUE]
    /\ tx = [r \in RunIds |-> EmptyTx]
    /\ date_path = [r \in RunIds |-> 0]
    /\ tempVideos = [r \in RunIds |-> {}]
    /\ tempChannels = [r \in RunIds |-> {}]
    /\ faultsLeft = 0
    /\ ret = [r \in RunIds |-> "none"]
    /\ events = [r \in RunIds |-> <<>>]
    /\ pre = [r \in RunIds |-> NoRows]
    /\ concurrency = 1
    /\ video_data = NoVideo
    /\ classification = NoClassification
    /\ config = AzureFunctionConfig
    /\ statistics = NoStatistics
    /\ engagement = NoEngagement
    /\ youtube \in Catalogs
    /\ collection = NoCollection
    /\ environ = EnvKeys
    /\ entry_point = "none"
    /\ steps = <<>>
    /\ outcome = "none"
    /\ raising = {}

NextCollect == collect_data

SpecCollect == InitCollect /\ [][NextCollect]_vars

\* one invocation of an entry point in an environment
invoke_function ==
    /\ outcome = "none"
    /\ entry_point = "YouTubeCollectorFunction"
    /\ \E collected \in CollectOutcomes, uploaded \in UploadOutcomes,
          loaded \in LoadOutcomes :
          /\ steps' = YouTubeCollectorFunction(environ, collected, uploaded, loaded)
          /\ outcome' = FunctionOutcome(steps')
    /\ UNCHANGED <<now, store, runsLeft, concurrency, video_data, classification, config,
                   statistics, engagement, youtube, collection, environ, entry_point,
                   raising,
                   tables, pc, session, tx, temps, faultsLeft, ret, events, pre>>

invoke_collector_main ==
    /\ outcome = "none"
    /\ entry_point = "youtube_collector.main"
    /\ \E collected \in CollectOutcomes, uploaded \in UploadOutcomes :
          /\ steps' = collector_main(environ, collected, uploaded)
          /\ outcome' = ScriptOutcome(steps')
    /\ UNCHANGED <<now, store, runsLeft, concurrency, video_data, classification, config,
                   statistics, engagement, youtube, collection, environ, entry_point,
                   raising,
                   tables, pc, session, tx, temps, faultsLeft, ret, events, pre>>

invoke_loader_main ==
    /\ outcome = "none"
    /\ entry_point = "snowflake_loader.main"
    /\ \E connected \in ConnectOutcomes, loaded \in {"True", "False"} :
          /\ steps' = loader_main(environ, connected, loaded)
          /\ outcome' = ScriptOutcome(steps')
    /\ UNCHANGED <<now, store, runsLeft, concurrency, video_data, classification, config,
                   statistics, engagement, youtube, collection, environ, entry_point,
                   raising,
                   tables, pc, session, tx, temps, faultsLeft, ret, events, pre>>

InitEntry ==
    /\ now = 0
    /\ uploadsLeft = 0
    /\ runsLeft = 0
    /\ videosBlobs = <<>>
    /\ channelsBlobs = <<>>
    /\ staging = EmptyBag
    /\ dim = EmptyBag
    /\ fact = EmptyBag
    /\ agg = EmptyBag
    /\ pc = [r \in RunIds |-> <<"none", "idle">>]
    /\ conn = [r \in RunIds |-> "none"]
    /\ cursor = [r \in RunIds |-> "none"]
    /\ autocommit = [r \in RunIds |-> TRUE]
    /\ tx = [r \in RunIds |-> EmptyTx]
    /\ date_path = [r \in RunIds |-> 0]
    /\ tempVideos = [r \in RunIds |-> {}]
    /\ tempChannels = [r \in RunIds |-> {}]
    /\ faultsLeft = 0
    /\ ret = [r \in RunIds |-> "none"]
    /\ events = [r \in RunIds |-> <<>>]
    /\ pre = [r \in RunIds |-> NoRows]
    /\ concurrency = 1
    /\ video_data = NoVideo
    /\ classification = NoClassification
    /\ config = AzureFunctionConfig
    /\ statistics = NoStatistics
    /\ engagement = NoEngagement
    /\ youtube = NoYouTube
    /\ collection = NoCollection
    /\ environ \in SUBSET EnvKeys
    /\ entry_point \in EntryPoints
    /\ steps = <<>>
    /\ outcome = "none"
    /\ raising = {}

NextEntry == invoke_function \/ invoke_collector_main \/ invoke_loader_main

SpecEntry == InitEntry /\ [][NextEntry]_vars

\* ------------------------------------------------ legacy SnowflakeLoader
\* the statements in the try block of SnowflakeLoader.load_todays_data
\* (src/src/snowflake_loader.py), in order
LegacySteps == <<"load_videos_to_staging", "load_channels", "load_video_facts",
                 "refresh_aggregations", "cleanup_staging", "print_summary">>

\* variant of SnowflakeLoader_calls that handles a failure of
\* refresh_aggregations or cleanup_staging and carries on, as
\* SnowflakeLoaderService does
SnowflakeLoader_calls_nonCritical(raises) ==
    LET fatal == { i \in DOMAIN LegacySteps :
                     /\ LegacySteps[i] \in raises
                     /\ LegacySteps[i] \notin {"refresh_aggregations",
                                                "cleanup_staging"} }
        last == IF fatal = {} THEN Len(LegacySteps)
                ELSE CHOOSE i \in fatal : \A j \in fatal : i <= j
    IN [i \in 1..last |->
          Call(LegacySteps[i],
               IF LegacySteps[i] \in raises THEN "raised" ELSE "ok")]

\* the calls load_todays_data makes when the steps in raises raise: the
\* first exception leaves the try block
SnowflakeLoader_calls(raises) ==
    LET failing == { i \in DOMAIN LegacySteps : LegacySteps[i] \in raises }
        last == IF failing = {} THEN Len(LegacySteps)
                ELSE CHOOSE i \in failing : \A j \in failing : i <= j
    IN [i \in 1..last |->
          Call(LegacySteps[i], IF i \in failing THEN "raised" ELSE "ok")]

\* return True at the end of the try block, return False in the handler
SnowflakeLoader_returns(calls) == IF Raises(calls) THEN "False" ELSE "True"

\* SnowflakeLoader.load_todays_data
legacy_load_todays_data ==
    /\ outcome = "none"
    /\ entry_point = "SnowflakeLoader.load_todays_data"
    /\ steps' = SnowflakeLoader_calls(raising)
    /\ outcome' = SnowflakeLoader_returns(steps')
    /\ UNCHANGED <<now, store, runsLeft, concurrency, video_data, classification, config,
                   statistics, engagement, youtube, collection, environ, entry_point,
                   raising,
                   tables, pc, session, tx, temps, faultsLeft, ret, events, pre>>

\* a connected SnowflakeLoader; any of the steps may raise
InitLegacy ==
    /\ now = 0
    /\ uploadsLeft = 0
    /\ runsLeft = 0
    /\ videosBlobs = <<>>
    /\ channelsBlobs = <<>>
    /\ staging = EmptyBag
    /\ dim = EmptyBag
    /\ fact = EmptyBag
    /\ agg = EmptyBag
    /\ pc = [r \in RunIds |-> <<"none", "idle">>]
    /\ conn = [r \in RunIds |-> "none"]
    /\ cursor = [r \in RunIds |-> "none"]
    /\ autocommit = [r \in RunIds |-> TRUE]
    /\ tx = [r \in RunIds |-> EmptyTx]
    /\ date_path = [r \in RunIds |-> 0]
    /\ tempVideos = [r \in RunIds |-> {}]
    /\ tempChannels = [r \in RunIds |-> {}]
    /\ faultsLeft = 0
    /\ ret = [r \in RunIds |-> "none"]
    /\ events = [r \in RunIds |-> <<>>]
    /\ pre = [r \in RunIds |-> NoRows]
    /\ concurrency = 1
    /\ video_data = NoVideo
    /\ classification = NoClassification
    /\ config = AzureFunctionConfig
    /\ statistics = NoStatistics
    /\ engagement = NoEngagement
    /\ youtube = NoYouTube
    /\ collection = NoCollection
    /\ environ = EnvKeys
    /\ entry_point = "SnowflakeLoader.load_todays_data"
    /\ steps = <<>>
    /\ outcome = "none"
    /\ raising \in SUBSET {LegacySteps[i] : i \in DOMAIN LegacySteps}

SpecLegacy == InitLegacy /\ [][legacy_load_todays_data]_vars

\* ------------------------------------------------------ reading the events
Done(r) == pc[r][2] = "done"
Called(r, op) == \E i \in DOMAIN events[r] : events[r][i].op = op
\* the body of phase ph raised
BodyFailed(r, ph) == \E i \in DOMAIN events[r] : events[r][i] = [op |-> ph, ok |-> FALSE]
\* the body of phase ph returned and its commit succeeded
Completed(r, ph) ==
    \E i \in DOMAIN events[r] :
        /\ events[r][i] = [op |-> ph, ok |-> TRUE]
        /\ i + 1 \in DOMAIN events[r]
        /\ events[r][i + 1] = [op |-> "commit", ok |-> TRUE]
\* phase ph failed: its body raised or its commit raised
Failed(r, ph) ==
    \E i \in DOMAIN events[r] :
        /\ events[r][i].op = ph
        /\ \/ ~events[r][i].ok
           \/ /\ i + 1 \in DOMAIN events[r]
              /\ events[r][i + 1] = [op |-> "commit", ok |-> FALSE]
\* the call that follows the body of ph
AfterBody(r, ph) ==
    LET i == CHOOSE j \in DOMAIN events[r] : events[r][j].op = ph
    IN events[r][i + 1]
IsPhase(e) == e.op \in PhaseNames
PhaseCalls(r) == SelectSeq(events[r], IsPhase)
OneRowPerKey(B, Key(_)) ==
    \A a, b \in BagToSet(B) : Key(a) = Key(b) => a = b /\ B[a] = 1
VideoKey(row) == row.video_id
ChannelKey(row) == row.channel_id

\* ------------------------------------------------------------------ claims

\* C1: after any sequence of runs of load_todays_data the fact table holds
\* at most one row per video identifier, also when staging holds several
\* rows for one video identifier that differ in other fields.
C1_OneFactRowPerVideo == OneRowPerKey(fact, VideoKey)

\* C2: if FactMerger fails in a run in which StagingLoader and DimensionMerger
\* succeeded, then at the end of the run load_todays_data has returned False,
\* the dimension table contains the channels merged by this run, the fact
\* table equals its content before the run, and neither _refresh_aggregations
\* nor _cleanup_staging was invoked.
C2_FactMergerFailure ==
    \A r \in RunIds :
        (/\ Done(r)
         /\ Completed(r, "staging") /\ Completed(r, "channels")
         /\ BodyFailed(r, "facts"))
        => /\ ret[r] = "False"
           /\ \A s \in tempChannels[r] : \E row \in BagToSet(dim) :
                 /\ row.channel_id = s.channel_id
                 /\ row.channel_country = s.channel_country
           /\ fact = pre[r].fact
           /\ ~Called(r, "aggregations")
           /\ ~Called(r, "cleanup")

\* C3: if one of the three critical phases fails, the run rolls back, ends
\* with load_todays_data returning False, and no later phase is invoked.
C3_CriticalFailureAborts ==
    \A r \in RunIds : \A ph \in Critical :
        (Done(r) /\ Failed(r, ph))
        => /\ Called(r, "rollback")
           /\ ret[r] = "False"
           /\ \A i \in (IndexOf(ph) + 1)..Len(Phases) : ~Called(r, Phases[i])

\* C4: if AggregateRefresher fails after the three critical phases succeeded,
\* the failure is rolled back, StagingCleaner is still invoked and
\* load_todays_data returns True; a StagingCleaner failure also leaves
\* the returned outcome True.
C4_NonCriticalFailureContinues ==
    \A r \in RunIds :
        /\ (Done(r) /\ BodyFailed(r, "aggregations"))
           => /\ AfterBody(r, "aggregations") = [op |-> "rollback", ok |-> TRUE]
              /\ Called(r, "cleanup")
              /\ ret[r] = "True"
        /\ (Done(r) /\ Failed(r, "cleanup")) => ret[r] = "True"

\* C5: load_todays_data returns True if and only if StagingLoader,
\* DimensionMerger and FactMerger all completed; what happens in
\* AggregateRefresher and StagingCleaner, a failing rollback after them
\* included, never changes the returned value.
C5_OutcomeIffCriticalCompleted ==
    \A r \in RunIds :
        (Done(r) /\ ret[r] \in {"True", "False"})
        => (ret[r] = "True" <=> \A ph \in Critical : Completed(r, ph))

\* C6: within one run the phases are invoked in the fixed order, each at most
\* once and none skipped, and a phase is invoked only after the phase before
\* it has been committed or rolled back.
C6_PhaseOrder ==
    \A r \in RunIds :
        /\ \A i \in DOMAIN PhaseCalls(r) : PhaseCalls(r)[i].op = Phases[i]
        /\ \A j \in DOMAIN events[r] :
              IsPhase(events[r][j]) =>
                 /\ j > 1
                 /\ events[r][j - 1] \in
                       {[op |-> "connect", ok |-> TRUE],
                        [op |-> "commit", ok |-> TRUE],
                        [op |-> "rollback", ok |-> TRUE]}
                 /\ events[r][j - 1].op = "connect" <=> events[r][j].op = "staging"

C6_Witness ==
    \E r \in RunIds :
        /\ Done(r)
        /\ BodyFailed(r, "aggregations")
        /\ Called(r, "cleanup")
        /\ Len(PhaseCalls(r)) = Len(Phases)

\* between the call of phase i and the call of the next phase there is
\* exactly one boundary that succeeded: the commit of a body that returned,
\* or the rollback of a body or commit that raised
ClosedOnce(r, j) ==
    LET e == events[r]
        body == e[j].ok
    IN \/ /\ body /\ e[j + 1] = [op |-> "commit", ok |-> TRUE]
          /\ IsPhase(e[j + 2])
       \/ /\ body /\ e[j + 1] = [op |-> "commit", ok |-> FALSE]
          /\ e[j + 2] = [op |-> "rollback", ok |-> TRUE]
          /\ IsPhase(e[j + 3])
       \/ /\ ~body /\ e[j + 1] = [op |-> "rollback", ok |-> TRUE]
          /\ IsPhase(e[j + 2])

NoOpenTransactionAtPhaseStart ==
    \A r \in RunIds :
        /\ pc[r][2] = "body" => tx[r] = EmptyTx
        /\ \A j \in DOMAIN events[r] :
              (/\ IsPhase(events[r][j])
               /\ \E k \in DOMAIN events[r] : k > j /\ IsPhase(events[r][k]))
              => ClosedOnce(r, j)

RollbackKeepsCommitted ==
    \A r \in RunIds :
        (pc[r][2] \in {"rollback", "outer"} /\ pc'[r] # pc[r])
        => <<staging, dim, fact, agg>>' = <<staging, dim, fact, agg>>

\* C7: every phase invocation is closed by exactly one transaction boundary
\* before the next phase starts, a commit when it succeeded and a rollback
\* when it failed; no transaction spans two phases, and what an earlier phase
\* committed is still there after a later phase is rolled back.
C7_OneBoundaryPerPhase ==
    [](NoOpenTransactionAtPhaseStart) /\ [][RollbackKeepsCommitted]_vars

C7_Witness ==
    \E r \in RunIds :
        /\ At(r, "cleanup", "body")
        /\ ~autocommit[r]
        /\ BodyFailed(r, "aggregations")
        /\ staging # EmptyBag
        /\ fact # EmptyBag

\* C8: a run of load_todays_data that opened a warehouse connection has
\* closed it when it returns, on every exit path, a failure inside connect()
\* after the connection was created included.
C8_ConnectionReleased ==
    \A r \in RunIds : (Done(r) /\ conn[r] # "none") => conn[r] = "closed"

\* C9: no exception leaves load_todays_data, whichever warehouse call fails.
C9_NoExceptionEscapes ==
    \A r \in RunIds : Done(r) => ret[r] \in {"True", "False"}

\* the fields of a dimension row other than last_updated
DimCore(row) ==
    [channel_id |-> row.channel_id, channel_country |-> row.channel_country,
     first_seen_date |-> row.first_seen_date]

\* C10 (as stated): applying _load_channels twice with the same payloads
\* leaves the same dimension table, the same row per channel, as applying
\* it once.
C10_SameRows == runsLeft = 0 => dim = pre[1].dim

\* C10 (amended): applying _load_channels twice with the same payloads leaves
\* the same channel identifiers and, per channel, the same row in every
\* field except last_updated.
C10_IdempotentUpToLastUpdated ==
    runsLeft = 0 => /\ BagOfAll(DimCore, dim) = BagOfAll(DimCore, pre[1].dim)
                    /\ OneRowPerKey(dim, ChannelKey)

C10_Witness ==
    /\ runsLeft = 0
    /\ dim # pre[1].dim
    /\ Cardinality(BagToSet(dim)) = Cardinality(ChannelIds)
    /\ \E row \in BagToSet(dim) : row.last_updated = now /\ now > 0

\* ---------------------------------------------- reading the applications
LastApplied(ph) ==
    /\ Len(events[1]) >= 1
    /\ events[1][Len(events[1])].op = ph
AppliedTwice(ph) ==
    /\ Len(events[1]) >= 2
    /\ events[1][Len(events[1])].op = ph
    /\ events[1][Len(events[1]) - 1].op = ph
SameVideoTwice(stg) ==
    \E a, b \in BagToSet(stg) :
        a.raw_json # b.raw_json /\ a.raw_json.video_id = b.raw_json.video_id

\* C11: applying _load_video_facts a second time over unchanged staging
\* content inserts no further fact row, also when staging holds several rows
\* for one video identifier.
C11_FactMergerIdempotent == AppliedTwice("facts") => fact = pre[1].fact

C11_Witness ==
    /\ AppliedTwice("facts")
    /\ SameVideoTwice(staging)
    /\ BagCardinality(pre[1].fact) > BagCardinality(pre[2].fact)

\* C12: the fact table is append-only: no step of any phase removes a fact
\* row or changes a field of it, also when staging carries the same video
\* identifier with different counts.
C12_FactAppendOnly == [][fact \sqsubseteq fact']_vars

C12_Witness ==
    /\ LastApplied("facts")
    /\ fact = pre[1].fact
    /\ \E row \in BagToSet(fact) : \E x \in BagToSet(staging) :
          /\ x.raw_json.video_id = row.video_id
          /\ x.raw_json.view_count # row.view_count

AggKey(row) == <<row.analysis_date, row.channel_country, row.final_sentiment>>

RowsOfOtherDates(a, d) ==
    [row \in { x \in BagToSet(a) : x.analysis_date # d } |-> a[row]]
RowsOfDate(a, d) ==
    [row \in { x \in BagToSet(a) : x.analysis_date = d } |-> a[row]]

\* C13: invoking _refresh_aggregations again for the same date with unchanged
\* fact and dimension tables leaves exactly the same aggregate rows for that
\* date, one per (country, sentiment) pair, and every invocation leaves the
\* aggregate rows of other dates unchanged.
C13_RefreshIdempotentPerDay ==
    /\ (AppliedTwice("aggregations") /\ date_path[1] = date_path[2])
       => agg = pre[1].agg
    /\ LastApplied("aggregations")
       => /\ RowsOfOtherDates(agg, date_path[1])
               = RowsOfOtherDates(pre[1].agg, date_path[1])
          /\ OneRowPerKey(RowsOfDate(agg, date_path[1]), AggKey)

C13_Witness ==
    /\ AppliedTwice("aggregations")
    /\ date_path[1] = date_path[2]
    /\ pre[1].agg # pre[2].agg
    /\ RowsOfDate(pre[2].agg, date_path[1]) # EmptyBag
    /\ RowsOfDate(agg, date_path[1]) # EmptyBag
    /\ RowsOfOtherDates(agg, date_path[1]) # EmptyBag

\* video_count summed over the aggregate rows of date d
AggCount(a, d) ==
    LET rows == { x \in BagToSet(a) : x.analysis_date = d }
    IN SumOver([x \in rows |-> a[x] * x.video_count], rows)
\* number of fact rows collected on date d
FactCount(f, d) ==
    LET rows == { x \in BagToSet(f) : x.collection_date = d }
    IN SumOver([x \in rows |-> f[x]], rows)

\* C14: after a successful AggregateRefresher the video counts of today's
\* aggregate rows sum to the number of fact rows collected today, facts
\* whose channel has no row in the dimension table included.
C14_AggregatesCoverTodaysFacts ==
    \A r \in RunIds :
        (At(r, "cleanup", "body") /\ Completed(r, "aggregations"))
        => AggCount(agg, DateOf(now)) = FactCount(fact, DateOf(now))

\* C15: with two runs of load_todays_data overlapping on the same warehouse,
\* both having loaded staging, the fact table never holds two rows with the
\* same video identifier.
C15_OverlapOneFactRowPerVideo ==
    (concurrency = 2 /\ \A r \in RunIds : Called(r, "staging"))
    => OneRowPerKey(fact, VideoKey)

\* C16: once two overlapping runs have both finished, the aggregate table
\* holds at most one row per (date, country, sentiment) key.
C16_OverlapOneAggRowPerKey ==
    (concurrency = 2 /\ \A r \in RunIds : Done(r))
    => OneRowPerKey(agg, AggKey)

\* C17: _load_videos_to_staging only appends: the staging rows present before
\* the phase are still there with their count, and running the phase twice
\* for the same date path with unchanged payloads adds each payload record
\* twice.
C17_StagingLoaderAppends ==
    /\ LastApplied("staging")
       => /\ pre[1].staging \sqsubseteq staging
          /\ staging = pre[1].staging (+) SetToBag(tempVideos[1])
    /\ (AppliedTwice("staging") /\ date_path[1] = date_path[2])
       => \A row \in tempVideos[1] :
             CopiesIn(row, staging) = CopiesIn(row, pre[2].staging) + 2

C17_Witness ==
    /\ AppliedTwice("staging")
    /\ date_path[1] = date_path[2]
    /\ pre[2].staging # EmptyBag
    /\ \E row \in tempVideos[1] : CopiesIn(row, staging) = 3

\* the INSERT of run r's StagingLoader loads only records that no earlier
\* invocation has loaded: none of its rows is in staging already and none
\* has its fact row in the fact table
LoadsOnlyNewRecords ==
    \A r \in RunIds :
        (At(r, "staging", "body") /\ pc'[r] = <<"staging", "commit">>)
        => \A row \in tempVideos'[r] :
              /\ ~BagIn(row, staging)
              /\ ~BagIn(FactRow(row.raw_json), fact)

\* C18: across any sequence of runs, runs on one date that load the whole
\* date partition included, no published record is loaded into staging by
\* more than one StagingLoader invocation.
C18_RecordConsumedOnce == [][LoadsOnlyNewRecords]_vars

\* the partitions a later run can load: the present files and those of one
\* more upload, at any date from now on
LaterStores ==
    {videosBlobs}
    \cup UNION { { Put(videosBlobs, t, b) : b \in VideoBatches(t) } : t \in now..MaxClock }
NextLoads ==
    { SelectTempVideos(B, DateOf(t)) : B \in LaterStores, t \in now..MaxClock }

\* C19: once a run is past its critical phases, the fact table the next
\* run's FactMerger leaves is the same whether StagingCleaner empties staging
\* or fails (or is skipped) and leaves the rows behind, whatever the next run
\* loads.
C19_FailedCleanupHarmless ==
    \A r \in RunIds :
        (Called(r, "aggregations") \/ Called(r, "cleanup"))
        => \A T \in NextLoads :
              MergeFacts(fact, InsertStaging(staging, T))
                = MergeFacts(fact, InsertStaging(TruncateStaging, T))

C19_Witness ==
    \E r \in RunIds :
        /\ Done(r)
        /\ BodyFailed(r, "cleanup")
        /\ staging # EmptyBag
        /\ \E T \in NextLoads :
              MergeFacts(fact, InsertStaging(TruncateStaging, T)) # fact

\* classify_video has returned a result for video_data
Classified == classification \notin {NoClassification, Raised("ValueError")}

\* C20: classify_video returns sentiment POSITIVE and method CATEGORY_BASED
\* for every category code of the positive set, whatever title, description
\* and tags contain, more negative than positive keyword hits included.
C20_PositiveCategoryWins ==
    (/\ classification # NoClassification
     /\ ParseInt(video_data.categoryId) \in POSITIVE_CATEGORIES)
    => /\ classification.final_sentiment = "POSITIVE"
       /\ classification.classification_method = "CATEGORY_BASED"

C20_Witness ==
    /\ classification # NoClassification
    /\ ParseInt(video_data.categoryId) \in POSITIVE_CATEGORIES
    /\ classification.negative_keyword_count > classification.positive_keyword_count
    /\ classification.negative_keyword_count >= 2

\* C21: for every category code of the mixed set that is in neither the
\* positive nor the negative set, classify_video returns method KEYWORD_BASED
\* and sentiment POSITIVE when pos_count > neg_count, NEGATIVE when
\* neg_count > pos_count and NEUTRAL when the counts are equal, both zero
\* included.
C21_MixedCategoryByKeywords ==
    (/\ classification # NoClassification
     /\ ParseInt(video_data.categoryId) \in
            MIXED_CATEGORIES \ (POSITIVE_CATEGORIES \cup NEGATIVE_CATEGORIES))
    => LET pos_count == classification.positive_keyword_count
           neg_count == classification.negative_keyword_count
       IN /\ classification.classification_method = "KEYWORD_BASED"
          /\ pos_count > neg_count => classification.final_sentiment = "POSITIVE"
          /\ neg_count > pos_count => classification.final_sentiment = "NEGATIVE"
          /\ pos_count = neg_count => classification.final_sentiment = "NEUTRAL"

C21_Witness ==
    /\ classification # NoClassification
    /\ ParseInt(video_data.categoryId) \in MIXED_CATEGORIES
    /\ classification.positive_keyword_count = 0
    /\ classification.negative_keyword_count = 0
    /\ classification.final_sentiment = "NEUTRAL"

\* C22: for every result of classify_video three conditions are equivalent:
\* final_sentiment is UNKNOWN, classification_method is UNCATEGORIZED, and the
\* category code is in none of the positive, negative and mixed category sets.
C22_UnknownIffUncategorized ==
    Classified =>
        LET inNoSet == ParseInt(video_data.categoryId) \notin
                (config.POSITIVE_CATEGORIES \cup config.NEGATIVE_CATEGORIES
                    \cup config.MIXED_CATEGORIES)
        IN /\ classification.final_sentiment = "UNKNOWN"
                <=> classification.classification_method = "UNCATEGORIZED"
           /\ classification.classification_method = "UNCATEGORIZED" <=> inNoSet

C22_Witness ==
    /\ Classified
    /\ video_data.categoryId = "10"
    /\ classification.final_sentiment = "UNKNOWN"
    /\ classification.classification_method = "UNCATEGORIZED"
    /\ classification.positive_keyword_count > 0

\* C23: when the configured category sets overlap, classify_video applies
\* first-match-wins in the order positive, negative, mixed: a code in the
\* positive and another set is classified POSITIVE / CATEGORY_BASED, a code in
\* the negative and the mixed set (and not in the positive set, which comes
\* first) is classified NEGATIVE / CATEGORY_BASED, never KEYWORD_BASED.
C23_FirstMatchWins ==
    Classified =>
        LET category_id == ParseInt(video_data.categoryId)
            inPos == category_id \in config.POSITIVE_CATEGORIES
            inNeg == category_id \in config.NEGATIVE_CATEGORIES
            inMix == category_id \in config.MIXED_CATEGORIES
        IN /\ (inPos /\ (inNeg \/ inMix)) =>
                /\ classification.final_sentiment = "POSITIVE"
                /\ classification.classification_method = "CATEGORY_BASED"
           /\ (~inPos /\ inNeg /\ inMix) =>
                /\ classification.final_sentiment = "NEGATIVE"
                /\ classification.classification_method = "CATEGORY_BASED"

C23_Witness ==
    /\ Classified
    /\ ParseInt(video_data.categoryId) \in
            (config.NEGATIVE_CATEGORIES \cap config.MIXED_CATEGORIES)
                \ config.POSITIVE_CATEGORIES
    /\ classification.positive_keyword_count > classification.negative_keyword_count
    /\ classification.final_sentiment = "NEGATIVE"
    /\ classification.classification_method = "CATEGORY_BASED"

\* C24: classify_video has no failure mode: a malformed (non-integer)
\* category code is treated as belonging to no category set and yields
\* sentiment UNKNOWN with method UNCATEGORIZED rather than an error.
C24_MalformedCodeIsUnknown ==
    (/\ classification # NoClassification
     /\ ParseInt(video_data.categoryId) = NotAnInteger)
    => /\ classification.final_sentiment = "UNKNOWN"
       /\ classification.classification_method = "UNCATEGORIZED"

\* calculate_engagement has returned a rate for statistics
Scored == engagement # NoEngagement

\* C25: calculate_engagement returns 0.0 whenever the view count is 0 or
\* absent, for every like count and comment count, and never fails with a
\* division by zero.
C25_ZeroViewsZeroRate ==
    (Scored /\ GetCount(statistics, "viewCount") = 0) => engagement = 0

C25_Witness ==
    /\ Scored
    /\ "viewCount" \notin DOMAIN statistics
    /\ GetCount(statistics, "likeCount") > 0
    /\ GetCount(statistics, "commentCount") > 0
    /\ engagement = 0

\* C26: for views > 0 calculate_engagement returns
\* ((likes + comments) / views) * 100 rounded to 4 decimal places, that is a
\* multiple of 0.0001 at most 0.00005 away from it; views = 200, likes = 10,
\* comments = 10 gives 10.0.
C26_RateRoundedToFourDecimals ==
    LET views == GetCount(statistics, "viewCount")
        likes == GetCount(statistics, "likeCount")
        comments == GetCount(statistics, "commentCount")
        error == engagement * views - (likes + comments) * 1000000
    IN (Scored /\ views > 0) =>
          /\ engagement >= 0
          /\ 2 * error <= views
          /\ 2 * (0 - error) <= views
          /\ (views = 200 /\ likes = 10 /\ comments = 10) => engagement = 100000

C26_Witness ==
    /\ Scored
    /\ GetCount(statistics, "viewCount") = 200
    /\ GetCount(statistics, "likeCount") = 10
    /\ GetCount(statistics, "commentCount") = 10
    /\ engagement = 100000

\* the channel ids of a sequence of records, and how many records of the
\* sequence satisfy a condition
IdsIn(records) == { records[n].channel_id : n \in DOMAIN records }
RecordsFor(records, v, i) ==
    { n \in DOMAIN records :
        /\ records[n].video_id = v
        /\ records[n].search_region = RegionOf(i)
        /\ records[n].search_keyword = KeywordOf(i) }

\* C27: the channel records returned by collect_data hold exactly one
\* ChannelRecord per distinct channel id seen in the returned video records:
\* none is missing, none appears twice, also when the channel lookup fails or
\* returns fewer channels than requested.
C27_OneChannelRecordPerChannel ==
    collection.returned =>
        /\ IdsIn(collection.channels) = IdsIn(collection.videos)
        /\ \A m, n \in DOMAIN collection.channels :
              collection.channels[m].channel_id = collection.channels[n].channel_id
                  => m = n

\* C28: collect_data does not deduplicate videos across search combinations:
\* every video returned for a (region, keyword) combination has one record
\* with that search_region and search_keyword in the returned batch, so a
\* video returned for two combinations has two records.
C28_NoDeduplicationAcrossSearches ==
    collection.returned =>
        \A i \in Combinations : \A n \in DOMAIN youtube.search[i] :
            Cardinality(RecordsFor(collection.videos, youtube.search[i][n], i)) = 1

C28_Witness ==
    /\ collection.returned
    /\ \E i, j \in Combinations :
          /\ RegionOf(i) # RegionOf(j)
          /\ KeywordOf(i) # KeywordOf(j)
          /\ \E v \in VideoIds :
                /\ \E n \in DOMAIN youtube.search[i] : youtube.search[i][n] = v
                /\ \E n \in DOMAIN youtube.search[j] : youtube.search[j][n] = v
                /\ RecordsFor(collection.videos, v, i) # {}
                /\ RecordsFor(collection.videos, v, j) # {}
                /\ RecordsFor(collection.videos, v, i) # RecordsFor(collection.videos, v, j)

\* what one application of _load_channels may do to the dimension table: the
\* rows of the channels in its source keep their first_seen_date and have
\* last_updated set to the time of the merge, new ones start with today's
\* first_seen_date, every other row stays as it is, and no channel goes away
MergedChannels == { s.channel_id : s \in tempChannels'[1] }
DimStepAppendsOrUpdates ==
    IF runsLeft' = runsLeft THEN dim' = dim
    ELSE /\ \A row \in BagToSet(dim) : \E kept \in BagToSet(dim') :
               /\ kept.channel_id = row.channel_id
               /\ kept.first_seen_date = row.first_seen_date
         /\ \A row \in BagToSet(dim') :
               IF row.channel_id \in MergedChannels
               THEN /\ row.last_updated = now
                    /\ (\A old \in BagToSet(dim) : old.channel_id # row.channel_id)
                          => row.first_seen_date = DateOf(now)
               ELSE BagIn(row, dim)

SnapshotFiles(c) ==
    { f \in DOMAIN channelsBlobs : DateOf(f) = date_path[1] /\ c \in DOMAIN channelsBlobs[f] }
LastNamed(F) == CHOOSE f \in F : \A g \in F : LexLeq(FileName(g), FileName(f))

\* C30: when several channels payload files of one date partition carry a
\* snapshot of the same channel, _load_channels merges exactly one snapshot
\* for it, the one of the lexicographically last file name, and the dimension
\* table ends with one row for the channel carrying that snapshot's fields.
C30_LastFileNameWins ==
    LastApplied("channels") =>
        \A c \in ChannelIds :
            SnapshotFiles(c) # {} =>
                /\ Cardinality({ s \in tempChannels[1] : s.channel_id = c }) = 1
                /\ \E row \in BagToSet(dim) :
                      /\ row.channel_id = c
                      /\ row.channel_country = channelsBlobs[LastNamed(SnapshotFiles(c))][c]
                      /\ CopiesIn(row, dim) = 1
                      /\ \A other \in BagToSet(dim) : other.channel_id = c => other = row

C30_Witness ==
    /\ LastApplied("channels")
    /\ \E c \in ChannelIds : \E f, g \in SnapshotFiles(c) :
          /\ f < g
          /\ channelsBlobs[f][c] # channelsBlobs[g][c]
          /\ \E row \in BagToSet(dim) :
                row.channel_id = c /\ row.channel_country = channelsBlobs[g][c]

\* the Snowflake connection parameters
ConnectionParameters == {"SNOWFLAKE_USER", "SNOWFLAKE_PASSWORD", "SNOWFLAKE_ACCOUNT"}
Invoked == outcome # "none"
Made(op) == \E n \in DOMAIN steps : steps[n].op = op

\* C31: when a required connection parameter (Snowflake user, password or
\* account) is missing, the whole run fails before any phase starts: no
\* collection, no upload, no warehouse connection and no load happens, in the
\* function and in the scripts alike.
C31_MissingParameterStopsRun ==
    (Invoked /\ ~(ConnectionParameters \subseteq environ)) =>
        /\ outcome \in {"raised", "1"}
        /\ \A n \in DOMAIN steps : steps[n].op = "validate"

\* C32: a malformed upstream video record (one without a statistics block
\* or with a non-integer category code) is skipped by collect_data and the
\* remaining records of the batch are still assembled and returned; one bad
\* record never aborts the batch.
C32_MalformedRecordSkipped ==
    collection # NoCollection =>
        /\ collection.returned
        /\ \A i \in Combinations : \A n \in DOMAIN youtube.search[i] :
              LET v == youtube.search[i][n]
              IN IF youtube.resources[v] = "ok"
                 THEN RecordsFor(collection.videos, v, i) # {}
                 ELSE RecordsFor(collection.videos, v, i) = {}

\* load_todays_data has been entered by run r
Started(r) == pc[r] # <<"none", "idle">>

\* C33: every run of load_todays_data terminates in a well-defined stopping
\* state: it eventually reaches DONE (returns True) or FAILED (returns
\* False), whatever subset of phases fails.
C33_RunReachesDoneOrFailed ==
    \A r \in RunIds : Started(r) ~> (Done(r) /\ ret[r] \in {"True", "False"})

\* C34: a failed AggregateRefresher leaves no partial effect: when it fails
\* after its DELETE of today's aggregate rows and its handler's rollback has
\* returned, the aggregate table holds what it held before the phase.
C34_FailedRefreshKeepsAggregates ==
    \A r \in RunIds :
        (At(r, "cleanup", "body") /\ BodyFailed(r, "aggregations"))
        => agg = pre[r].agg

\* C35: a successful StagingCleaner leaves the staging area empty whatever
\* it held before, and leaves the dimension, fact and aggregate tables as
\* they were.
C35_CleanupEmptiesStagingOnly ==
    LastApplied("cleanup")
    => /\ staging = EmptyBag
       /\ dim = pre[1].dim
       /\ fact = pre[1].fact
       /\ agg = pre[1].agg

C35_Witness ==
    /\ LastApplied("cleanup")
    /\ pre[1].staging # EmptyBag
    /\ pre[1].fact # EmptyBag
    /\ DateOf(now) > 0

\* C36: with two overlapping runs no staged record is lost: whenever a run
\* returns True, every non-null video identifier that its StagingLoader put
\* into staging is present in the fact table.
C36_OverlapNoStagedRecordLost ==
    \A r \in RunIds :
        (concurrency = 2 /\ Done(r) /\ ret[r] = "True")
        => \A x \in tempVideos[r] :
              x.raw_json.video_id # NULL
              => \E f \in BagToSet(fact) : f.video_id = x.raw_json.video_id

\* run r ended by a failure of DimensionMerger or FactMerger
FailedAfterStaging(r) ==
    /\ Done(r)
    /\ Failed(r, "channels") \/ Failed(r, "facts")

\* no other run has started since the warehouse was set up
OnlyRunSoFar(r) ==
    /\ runsLeft = 1
    /\ \A q \in RunIds \ {r} : pc[q] = <<"none", "idle">>

\* C37: after a run that fails in DimensionMerger or FactMerger its
\* StagingCleaner was never invoked and, no other run having touched the
\* warehouse, the rows its StagingLoader committed are still in staging; a
\* run started for the same date with these rows in staging holds each of
\* them at least twice from the commit of its StagingLoader until its own
\* cleanup.
C37_FailedRunLeavesStagingForRetry ==
    /\ \A r \in RunIds :
          FailedAfterStaging(r)
          => /\ ~Called(r, "cleanup")
             /\ OnlyRunSoFar(r) => SetToBag(tempVideos[r]) \sqsubseteq staging
    /\ \A r, q \in RunIds :
          (/\ r # q
           /\ FailedAfterStaging(r)
           /\ SetToBag(tempVideos[r]) \sqsubseteq pre[q].staging
           /\ date_path[q] = date_path[r]
           /\ Completed(q, "staging")
           /\ ~Called(q, "cleanup"))
          => \A row \in tempVideos[r] : CopiesIn(row, staging) >= 2

C37_Witness ==
    /\ FailedAfterStaging(1)
    /\ Failed(1, "facts")
    /\ tempVideos[1] # {}
    /\ SetToBag(tempVideos[1]) \sqsubseteq pre[2].staging
    /\ pre[2].dim # EmptyBag
    /\ At(2, "cleanup", "body")
    /\ \A row \in tempVideos[1] : CopiesIn(row, staging) = 2

\* position of a call with this result among the calls made
Returned(op, result) ==
    { n \in DOMAIN steps : steps[n] = Call(op, result) }

\* C38: in YouTubeCollectorFunction the warehouse load is invoked only after
\* a collection that returned at least one video and an upload that returned
\* True; when collect_data returns no videos or upload_to_azure returns
\* False, load_todays_data is never called and no connection is opened.
C38_LoadOnlyAfterCollectAndUpload ==
    (Invoked /\ entry_point = "YouTubeCollectorFunction") =>
        /\ \A k \in DOMAIN steps :
              steps[k].op = "load_todays_data"
              => \E i \in Returned("collect_data", "videos") :
                    \E j \in Returned("upload_to_azure", "True") :
                       i < j /\ j < k
        /\ (Returned("collect_data", "empty") # {}
            \/ Returned("upload_to_azure", "False") # {})
           => ~Made("load_todays_data") /\ ~Made("connect")

C38_Witness ==
    /\ Invoked
    /\ entry_point = "YouTubeCollectorFunction"
    /\ Returned("collect_data", "videos") # {}
    /\ Returned("upload_to_azure", "False") # {}
    /\ ~Made("load_todays_data")
    /\ outcome = "None"

\* C39: the legacy SnowflakeLoader.load_todays_data treats all five steps as
\* critical and issues no commit or rollback: a failure of any step,
\* refresh_aggregations and cleanup_staging included, makes it return False
\* and skips every later step; it returns True only after all of them.
C39_LegacyAllStepsCritical ==
    (Invoked /\ entry_point = "SnowflakeLoader.load_todays_data") =>
        /\ ~Made("commit") /\ ~Made("rollback")
        /\ \A n \in DOMAIN steps :
              steps[n].result = "raised"
              => outcome = "False" /\ n = Len(steps)
        /\ \A i \in 1..5 :
              LegacySteps[i] \in raising
              => /\ outcome = "False"
                 /\ \A j \in (i + 1)..Len(LegacySteps) : ~Made(LegacySteps[j])
        /\ outcome = "True"
           => steps = [i \in DOMAIN LegacySteps |-> Call(LegacySteps[i], "ok")]

C39_Witness ==
    /\ Invoked
    /\ entry_point = "SnowflakeLoader.load_todays_data"
    /\ steps[Len(steps)] = Call("refresh_aggregations", "raised")
    /\ outcome = "False"
    /\ ~Made("cleanup_staging")

====
